---- MODULE Spec2Model ----
(***************************************************************************)
(* Knowledge-graph expansion engine of minh-kim-be: the graph store        *)
(* (canvases, Topic nodes, RELATED_TO edges) as NodeDao / CanvasDao see    *)
(* it, NodeService::create_node and delete_node, CanvasService::           *)
(* delete_canvas, the path and sibling queries, AIService::                *)
(* generate_keywords and AIService::generate_insights_for_topic_node.      *)
(* Every handler is split at its awaits, so that concurrent requests       *)
(* interleave the way the tokio runtime lets them.                         *)
(***************************************************************************)
EXTENDS Integers, Sequences, FiniteSets, TLC

VARIABLES canvases, topics, edges, clock, cfg, call, ncalls, log

vars == <<canvases, topics, edges, clock, cfg, call, ncalls, log>>

(***************************************************************************)
(* Bounds of the model.                                                    *)
(***************************************************************************)
\* enrich calls of one behaviour of SpecHistory
MaxHistCalls == 6
\* entries of the searchHistory array a Topic starts with in SpecHistory
MaxInitHist == 6
\* enrich calls of one behaviour of SpecEnrich
MaxEnrichCalls == 2

\* calls of one behaviour of Spec, over both clients
MaxCalls == 2
\* check-then-create rounds of one behaviour of SpecRel
MaxRelCalls == 5
\* length of the keywords array of a model answer
MaxKeywords == 2

\* the cap of searchHistory
HistoryCap == 5

Procs == {"p1", "p2"}
\* the canvas ids of requests: C1 and C2 exist, C0 does not
CanvasIds == {"C0", "C1", "C2"}
Names == {"a", "b"}

(***************************************************************************)
(* Option<T>                                                               *)
(***************************************************************************)
None == [some |-> FALSE]
Some(x) == [some |-> TRUE, v |-> x]
UnwrapOr(o, d) == IF o.some THEN o.v ELSE d

Min(a, b) == IF a <= b THEN a ELSE b

\* the last n elements of s (all of s when it has fewer)
LastN(s, n) == SubSeq(s, Len(s) - Min(Len(s), n) + 1, Len(s))

(***************************************************************************)
(* serde_json::Value, as far as the knowledge blob needs it.  A stored     *)
(* knowledge string is KEmpty (""), KRaw (text that is not JSON) or        *)
(* KJson(v), the serialisation of the value v.                             *)
(***************************************************************************)
JNull == [t |-> "null"]
JScalar(kind) == [t |-> "scalar", kind |-> kind]
JStr(str) == [t |-> "scalar", kind |-> "string", str |-> str]
JArr(items) == [t |-> "array", items |-> items]
JObj(f) == [t |-> "object", f |-> f]
EmptyFields == [x \in {} |-> JNull]

KEmpty == [k |-> "empty"]
KRaw == [k |-> "raw"]
KJson(v) == [k |-> "json", v |-> v]

\* serde_json::from_str::<Value>
from_str(text) ==
    IF text.k = "json" THEN [ok |-> TRUE, v |-> text.v] ELSE [ok |-> FALSE]

\* serde_json::to_string
to_string(v) == KJson(v)

\* Value::get / get_mut with a string key: Some only on an object that has it
HasKey(v, key) == v.t = "object" /\ key \in DOMAIN v.f

\* IndexMut<&str> for Value: inserts into an object, turns Null into an
\* object first, panics on every other value
CanIndexMut(v) == v.t \in {"object", "null"}
IndexSet(v, key, x) ==
    LET f == IF v.t = "object" THEN v.f ELSE EmptyFields
    IN  JObj([kk \in (DOMAIN f) \cup {key} |-> IF kk = key THEN x ELSE f[kk]])

(***************************************************************************)
(* The knowledge merge of generate_insights_for_topic_node.                *)
(***************************************************************************)
\* current_knowledge, parsed: parse failure and "" give {}
ParseKnowledge(knowledge) ==
    LET current == UnwrapOr(knowledge, KEmpty)
    IN  IF current.k # "empty"
        THEN (IF from_str(current).ok THEN from_str(current).v ELSE JObj(EmptyFields))
        ELSE JObj(EmptyFields)

\* PushCapped draining from the wrong end: the newest entries are dropped
PushCappedKeepOldest(items, entry) ==
    LET pushed == Append(items, entry)
    IN  IF Len(pushed) > HistoryCap THEN SubSeq(pushed, 1, HistoryCap) ELSE pushed

\* history_array.push(entry); drain(0..len - 5) when len > 5
PushCapped(items, entry) ==
    LET pushed == Append(items, entry)
    IN  IF Len(pushed) > HistoryCap
        THEN SubSeq(pushed, Len(pushed) - HistoryCap + 1, Len(pushed))
        ELSE pushed

\* AddSearchHistory that starts a missing searchHistory as an empty array
AddSearchHistoryEmptyStart(v, entry) ==
    IF HasKey(v, "searchHistory")
    THEN (IF v.f["searchHistory"].t = "array"
          THEN [ok |-> TRUE,
                v |-> IndexSet(v, "searchHistory",
                               JArr(PushCapped(v.f["searchHistory"].items, entry)))]
          ELSE [ok |-> TRUE, v |-> v])
    ELSE (IF CanIndexMut(v)
          THEN [ok |-> TRUE, v |-> IndexSet(v, "searchHistory", JArr(<<>>))]
          ELSE [ok |-> FALSE])

\* the searchHistory step: [ok |-> FALSE] is the panic of IndexMut
AddSearchHistory(v, entry) ==
    IF HasKey(v, "searchHistory")
    THEN (IF v.f["searchHistory"].t = "array"
          THEN [ok |-> TRUE,
                v |-> IndexSet(v, "searchHistory",
                               JArr(PushCapped(v.f["searchHistory"].items, entry)))]
          ELSE [ok |-> TRUE, v |-> v])
    ELSE (IF CanIndexMut(v)
          THEN [ok |-> TRUE, v |-> IndexSet(v, "searchHistory", JArr(<<entry>>))]
          ELSE [ok |-> FALSE])

\* MergeKnowledge that builds the object anew and drops the other keys
MergeKnowledgeFresh(knowledge, entry, latest) ==
    LET h == AddSearchHistory(ParseKnowledge(knowledge), entry)
    IN  IF ~h.ok THEN [ok |-> FALSE]
        ELSE [ok |-> TRUE,
              v |-> IndexSet(IndexSet(IndexSet(JObj(EmptyFields), "searchHistory",
                                               h.v.f["searchHistory"]),
                                      "googleSearchStatus", JScalar("completed")),
                             "latestGoogleSearch", latest)]

\* updated_knowledge after the three assignments, or the panic
MergeKnowledge(knowledge, entry, latest) ==
    LET h == AddSearchHistory(ParseKnowledge(knowledge), entry)
    IN  IF ~h.ok THEN [ok |-> FALSE]
        ELSE [ok |-> TRUE,
              v |-> IndexSet(IndexSet(h.v, "googleSearchStatus", JScalar("completed")),
                             "latestGoogleSearch", latest)]

(***************************************************************************)
(* NodeDao                                                                 *)
(***************************************************************************)
\* MATCH (n:Topic {id: $id}) RETURN n
get_topic_node_by_id(id) ==
    IF id \in DOMAIN topics THEN Some(topics[id]) ELSE None

\* MATCH (n:Topic {id: $id}) SET ... RETURN n: the topics after the update
update_topic_node(id, updates) ==
    IF id \in DOMAIN topics
    THEN [topics EXCEPT ![id].name = UnwrapOr(updates.name, @),
                        ![id].kind = UnwrapOr(updates.node_type, @),
                        ![id].knowledge = IF updates.knowledge.some
                                          THEN updates.knowledge ELSE @]
    ELSE topics

(***************************************************************************)
(* AIService::generate_insights_for_topic_node (enrich)                    *)
(***************************************************************************)
Idle == [op |-> "idle", pc |-> "idle"]
Pending == [status |-> "pending"]
Err(kind, at) == [status |-> "Err", kind |-> kind, at |-> at]
Panicked(at) == [status |-> "panic", at |-> at]

CanStart(p) == call[p].pc \in {"idle", "done"}

\* request.question is left out of the requests: the default question
DefaultQuestion(name) == <<"Provide comprehensive insights about: ", name>>

\* get_topic_node_by_id: DatabaseError, TopicNotFound, or the Topic is read
EnrichStart(p, req, dbok) ==
    /\ CanStart(p)
    /\ LET found == get_topic_node_by_id(req.topic_node_id)
           base == [op |-> "enrich", pc |-> "done",
                    topic_node_id |-> req.topic_node_id,
                    canvas_id |-> req.canvas_id,
                    include_web |-> UnwrapOr(req.include_web_search, FALSE),
                    include_news |-> UnwrapOr(req.include_news_search, FALSE),
                    topic_node |-> None,
                    document_context |-> <<>>,
                    web_search_results |-> None,
                    news_search_results |-> None,
                    invoked |-> {}, failed |-> {},
                    updated_knowledge_str |-> None,
                    entry |-> None,
                    result |-> Pending]
       IN  call' = [call EXCEPT ![p] =
              IF ~dbok
              THEN [base EXCEPT !.result = Err("DatabaseError", "get_topic_node_by_id")]
              ELSE IF ~found.some
              THEN [base EXCEPT !.result = Err("TopicNotFound", "get_topic_node_by_id")]
              ELSE [base EXCEPT !.pc = "context", !.topic_node = found]]
    /\ ncalls' = ncalls + 1
    /\ UNCHANGED <<canvases, topics, edges, clock, cfg, log>>

\* get_topic_path, get_existing_siblings, get_topic_children: any of the
\* three reads may fail; their values only feed the prompt
EnrichContext(p, dbok) ==
    /\ call[p].op = "enrich" /\ call[p].pc = "context"
    /\ call' = [call EXCEPT ![p] =
          IF dbok THEN [@ EXCEPT !.pc = "doc"]
          ELSE [@ EXCEPT !.pc = "done", !.result = Err("DatabaseError", "get_topic_path")]]
    /\ UNCHANGED <<canvases, topics, edges, clock, cfg, log, ncalls>>

\* what weaviate_client.search can answer; nothing is asked without a client
DocOutcomes == IF cfg.weaviate_client THEN {"err", "empty", "hits"} ELSE {"skip"}

\* EnrichDocSearch with the search error propagated to the caller
EnrichDocSearchFatal(p, out) ==
    /\ call[p].op = "enrich" /\ call[p].pc = "doc"
    /\ out \in DocOutcomes
    /\ call' = [call EXCEPT ![p] =
          IF out = "err"
          THEN [@ EXCEPT !.pc = "done", !.invoked = @ \cup {"doc"},
                         !.failed = @ \cup {"doc"},
                         !.result = Err("WeaviateError", "search")]
          ELSE [@ EXCEPT !.pc = "web",
                         !.document_context = IF out = "hits" THEN <<"doc">> ELSE <<>>,
                         !.invoked = IF out = "skip" THEN @ ELSE @ \cup {"doc"}]]
    /\ UNCHANGED <<canvases, topics, edges, clock, cfg, log, ncalls>>

EnrichDocSearch(p, out) ==
    /\ call[p].op = "enrich" /\ call[p].pc = "doc"
    /\ out \in DocOutcomes
    /\ call' = [call EXCEPT ![p] =
          [@ EXCEPT !.pc = "web",
                    !.document_context = IF out = "hits" THEN <<"doc">> ELSE <<>>,
                    !.invoked = IF out = "skip" THEN @ ELSE @ \cup {"doc"},
                    !.failed = IF out = "err" THEN @ \cup {"doc"} ELSE @]]
    /\ UNCHANGED <<canvases, topics, edges, clock, cfg, log, ncalls>>

\* the outcomes of one internet search: asked only when requested and when
\* a search service is configured
SearchOutcomes(requested) ==
    IF requested /\ cfg.internet_search_service THEN {"ok", "err"} ELSE {"skip"}

EnrichWebSearch(p, out) ==
    /\ call[p].op = "enrich" /\ call[p].pc = "web"
    /\ out \in SearchOutcomes(call[p].include_web)
    /\ call' = [call EXCEPT ![p] =
          [@ EXCEPT !.pc = "news",
                    !.web_search_results = IF out = "ok" THEN Some("web") ELSE None,
                    !.invoked = IF out = "skip" THEN @ ELSE @ \cup {"web"},
                    !.failed = IF out = "err" THEN @ \cup {"web"} ELSE @]]
    /\ UNCHANGED <<canvases, topics, edges, clock, cfg, log, ncalls>>

\* EnrichNewsSearch whose failure also discards the web results
EnrichNewsSearchShared(p, out) ==
    /\ call[p].op = "enrich" /\ call[p].pc = "news"
    /\ out \in SearchOutcomes(call[p].include_news)
    /\ call' = [call EXCEPT ![p] =
          [@ EXCEPT !.pc = "model",
                    !.news_search_results = IF out = "ok" THEN Some("news") ELSE None,
                    !.web_search_results = IF out = "err" THEN None ELSE @,
                    !.invoked = IF out = "skip" THEN @ ELSE @ \cup {"news"},
                    !.failed = IF out = "err" THEN @ \cup {"news"} ELSE @]]
    /\ UNCHANGED <<canvases, topics, edges, clock, cfg, log, ncalls>>

EnrichNewsSearch(p, out) ==
    /\ call[p].op = "enrich" /\ call[p].pc = "news"
    /\ out \in SearchOutcomes(call[p].include_news)
    /\ call' = [call EXCEPT ![p] =
          [@ EXCEPT !.pc = "model",
                    !.news_search_results = IF out = "ok" THEN Some("news") ELSE None,
                    !.invoked = IF out = "skip" THEN @ ELSE @ \cup {"news"},
                    !.failed = IF out = "err" THEN @ \cup {"news"} ELSE @]]
    /\ UNCHANGED <<canvases, topics, edges, clock, cfg, log, ncalls>>

\* GenerateInsightsForTopicNodeResponse
EnrichResponse(c, text, now) ==
    [status |-> "Ok",
     insights |-> text,
     topic_node_id |-> c.topic_node_id,
     canvas_id |-> c.canvas_id,
     question |-> DefaultQuestion(c.topic_node.v.name),
     generated_at |-> now,
     web_search_results |-> c.web_search_results,
     news_search_results |-> c.news_search_results,
     document_context |->
        IF c.document_context = <<>> THEN None ELSE Some(c.document_context)]

\* search_data["searchHistory"]
HistoryEntry(c, text, now) ==
    [timestamp |-> now,
     web_search_results |-> c.web_search_results,
     news_search_results |-> c.news_search_results,
     insights |-> text]

\* search_data["latestGoogleSearch"]
LatestSearch(c, text, now) ==
    [insights |-> text,
     web_search_results |-> c.web_search_results,
     news_search_results |-> c.news_search_results,
     document_context |-> c.document_context,
     generated_at |-> now,
     question |-> DefaultQuestion(c.topic_node.v.name)]

\* &response_text[..200], taken when the text is longer than 200 bytes,
\* panics when byte 200 is not a character boundary
SlicePanics(text) == text = "long, byte 200 inside a character"

\* EnrichModelCall that marks the Topic when the model call has failed
EnrichModelCallMarkFailed(p, ai) ==
    /\ call[p].op = "enrich" /\ call[p].pc = "model"
    /\ LET c == call[p]
           merged == MergeKnowledge(c.topic_node.v.knowledge,
                                    HistoryEntry(c, ai.text, clock),
                                    LatestSearch(c, ai.text, clock))
       IN  /\ call' = [call EXCEPT ![p] =
                 IF ~ai.ok
                 THEN [c EXCEPT !.pc = "done", !.invoked = @ \cup {"model"},
                                !.result = Err("AIServiceError", "generate_content")]
                 ELSE IF SlicePanics(ai.text)
                 THEN [c EXCEPT !.pc = "done", !.invoked = @ \cup {"model"},
                                !.result = Panicked("response_text[..200]")]
                 ELSE IF ~merged.ok
                 THEN [c EXCEPT !.pc = "done", !.invoked = @ \cup {"model"},
                                !.result = Panicked("updated_knowledge[searchHistory]")]
                 ELSE [c EXCEPT !.pc = "persist", !.invoked = @ \cup {"model"},
                                !.entry = Some(HistoryEntry(c, ai.text, clock)),
                                !.updated_knowledge_str = Some(to_string(merged.v)),
                                !.result = EnrichResponse(c, ai.text, clock)]]
           /\ topics' = IF ai.ok THEN topics
                        ELSE update_topic_node(c.topic_node_id,
                                [name |-> None, node_type |-> None,
                                 description |-> None, knowledge |-> Some(KRaw)])
    /\ clock' = clock + 1
    /\ UNCHANGED <<canvases, edges, cfg, log, ncalls>>

\* the model call and everything up to the next await: the log line, the
\* response, the merge into the knowledge read at the start, the
\* serialisation
EnrichModelCall(p, ai) ==
    /\ call[p].op = "enrich" /\ call[p].pc = "model"
    /\ LET c == call[p]
           merged == MergeKnowledge(c.topic_node.v.knowledge,
                                    HistoryEntry(c, ai.text, clock),
                                    LatestSearch(c, ai.text, clock))
       IN  call' = [call EXCEPT ![p] =
              IF ~ai.ok
              THEN [c EXCEPT !.pc = "done", !.invoked = @ \cup {"model"},
                             !.result = Err("AIServiceError", "generate_content")]
              ELSE IF SlicePanics(ai.text)
              THEN [c EXCEPT !.pc = "done", !.invoked = @ \cup {"model"},
                             !.result = Panicked("response_text[..200]")]
              ELSE IF ~merged.ok
              THEN [c EXCEPT !.pc = "done", !.invoked = @ \cup {"model"},
                             !.result = Panicked("updated_knowledge[searchHistory]")]
              ELSE [c EXCEPT !.pc = "persist", !.invoked = @ \cup {"model"},
                             !.entry = Some(HistoryEntry(c, ai.text, clock)),
                             !.updated_knowledge_str = Some(to_string(merged.v)),
                             !.result = EnrichResponse(c, ai.text, clock)]]
    /\ clock' = clock + 1
    /\ UNCHANGED <<canvases, topics, edges, cfg, log, ncalls>>

\* UpdateNodeRequest of the enrich call: the knowledge alone
KnowledgeUpdate(text) ==
    [name |-> None, node_type |-> None, description |-> None, knowledge |-> text]

\* EnrichPersist whose failed write has stored the knowledge all the same
EnrichPersistWriteThrough(p, dbok) ==
    /\ call[p].op = "enrich" /\ call[p].pc = "persist"
    /\ topics' = update_topic_node(call[p].topic_node_id,
                                   KnowledgeUpdate(call[p].updated_knowledge_str))
    /\ log' = IF call[p].topic_node_id \in DOMAIN topics
              THEN Append(log, call[p].entry.v.timestamp) ELSE log
    /\ call' = [call EXCEPT ![p] =
          IF dbok THEN [@ EXCEPT !.pc = "done"]
          ELSE [@ EXCEPT !.pc = "done",
                         !.result = Err("DatabaseError", "update_topic_node")]]
    /\ UNCHANGED <<canvases, edges, clock, cfg, ncalls>>

\* update_topic_node and the return
EnrichPersist(p, dbok) ==
    /\ call[p].op = "enrich" /\ call[p].pc = "persist"
    /\ IF dbok
       THEN /\ topics' = update_topic_node(call[p].topic_node_id,
                                           KnowledgeUpdate(call[p].updated_knowledge_str))
            /\ call' = [call EXCEPT ![p] = [@ EXCEPT !.pc = "done"]]
            /\ log' = IF call[p].topic_node_id \in DOMAIN topics
                      THEN Append(log, call[p].entry.v.timestamp) ELSE log
       ELSE /\ call' = [call EXCEPT ![p] =
                  [@ EXCEPT !.pc = "done",
                            !.result = Err("DatabaseError", "update_topic_node")]]
            /\ UNCHANGED <<topics, log>>
    /\ UNCHANGED <<canvases, edges, clock, cfg, ncalls>>

(***************************************************************************)
(* Requests and answers of the enrich specifications.                      *)
(***************************************************************************)
Flags == {None, Some(TRUE), Some(FALSE)}
EnrichRequests ==
    [topic_node_id : {1, 2}, canvas_id : {"C1"},
     include_web_search : Flags, include_news_search : Flags]
\* generate_content: an error, or a text (the empty text is allowed)
Failure == [ok |-> FALSE, text |-> ""]
Answer(text) == [ok |-> TRUE, text |-> text]
ModelAnswers == {Failure, Answer(""), Answer("insight"), Answer("long"),
                 Answer("long, byte 200 inside a character")}
HistoryAnswers == {Failure, Answer("insight"),
                   Answer("long, byte 200 inside a character")}

\* a history entry written by an earlier enrich call, at time ts (the k
\* earlier calls were made at the times 1-k .. 0)
OldEntry(ts) ==
    [timestamp |-> ts, web_search_results |-> None,
     news_search_results |-> None, insights |-> "insight"]
OldHistory(k) == [i \in 1..k |-> OldEntry(i - k)]
OldLatest == [insights |-> "insight", web_search_results |-> None,
              news_search_results |-> None, document_context |-> <<>>,
              generated_at |-> 0, question |-> DefaultQuestion("a")]

\* the knowledge an earlier run of k enrich calls left behind
KnowledgeWithHistory(k) ==
    Some(KJson(JObj(("searchHistory" :> JArr(OldHistory(k)))
                    @@ ("googleSearchStatus" :> JScalar("completed"))
                    @@ ("latestGoogleSearch" :> OldLatest))))

\* knowledge that the enrich call reads as an empty object
BlankKnowledge == {None, Some(KEmpty), Some(KRaw)}

\* knowledge a client can have stored through create_node / update_node
OtherKnowledge ==
    {Some(KJson(JNull)), Some(KJson(JScalar("string"))), Some(KJson(JScalar("number"))),
     Some(KJson(JScalar("bool"))), Some(KJson(JArr(<<>>))),
     Some(KJson(JObj(EmptyFields))),
     Some(KJson(JObj("other" :> JScalar("string")))),
     Some(KJson(JObj("searchHistory" :> JNull))),
     Some(KJson(JObj("searchHistory" :> JScalar("string")))),
     Some(KJson(JObj("searchHistory" :> JObj(EmptyFields))))}

\* by is the number of the call that created the Topic, 0 for a Topic of
\* the initial store
TopicA(knowledge) ==
    [canvas |-> "C1", name |-> "a", kind |-> "original", knowledge |-> knowledge,
     by |-> 0]

NoServices == [weaviate_client |-> FALSE, internet_search_service |-> FALSE]
Services == [weaviate_client : BOOLEAN, internet_search_service : BOOLEAN]

InitEnrichStore(knowledge, k) ==
    /\ canvases = {"C1"}
    /\ topics = (1 :> TopicA(knowledge))
    /\ edges = {}
    /\ clock = 1
    /\ call = [p \in Procs |-> Idle]
    /\ ncalls = 0
    /\ log = [i \in 1..k |-> i - k]

EnrichStep(p, answers) ==
    \/ \E dbok \in BOOLEAN : EnrichContext(p, dbok)
    \/ \E out \in {"err", "empty", "hits", "skip"} : EnrichDocSearch(p, out)
    \/ \E out \in {"ok", "err", "skip"} : EnrichWebSearch(p, out)
    \/ \E out \in {"ok", "err", "skip"} : EnrichNewsSearch(p, out)
    \/ \E ai \in answers : EnrichModelCall(p, ai)
    \/ \E dbok \in BOOLEAN : EnrichPersist(p, dbok)

(***************************************************************************)
(* SpecHistory: one client enriches one Topic again and again, on the      *)
(* service as AIService::new builds it (no document index, no search       *)
(* service).  The Topic starts blank or with the history of k calls.       *)
(***************************************************************************)
InitHistory ==
    /\ cfg = NoServices
    /\ \E k \in 0..MaxInitHist :
          \/ InitEnrichStore(KnowledgeWithHistory(k), k)
          \/ k = 0 /\ InitEnrichStore(Some(KEmpty), 0)

NextHistory ==
    \/ /\ ncalls < MaxHistCalls
       /\ \E req \in EnrichRequests, dbok \in BOOLEAN : EnrichStart("p1", req, dbok)
    \/ EnrichStep("p1", HistoryAnswers)

SpecHistory == InitHistory /\ [][NextHistory]_vars

(***************************************************************************)
(* SpecEnrich: one client, every configuration of the two optional         *)
(* services, every kind of stored knowledge.                               *)
(***************************************************************************)
InitEnrich ==
    /\ cfg \in Services
    /\ \E kn \in BlankKnowledge \cup OtherKnowledge \cup {KnowledgeWithHistory(1)} :
          InitEnrichStore(kn, IF kn = KnowledgeWithHistory(1) THEN 1 ELSE 0)

NextEnrich ==
    \/ /\ ncalls < MaxEnrichCalls
       /\ \E req \in EnrichRequests, dbok \in BOOLEAN : EnrichStart("p1", req, dbok)
    \/ EnrichStep("p1", ModelAnswers)

SpecEnrich == InitEnrich /\ [][NextEnrich]_vars

(***************************************************************************)
(* CanvasDao and NodeDao, the graph queries.                               *)
(***************************************************************************)
\* MATCH (c:Canvas {id: $id}) RETURN c
get_canvas_by_id(id) == IF id \in canvases THEN Some(id) ELSE None

\* get_topic_node_by_name_and_canvas matching on the name alone
get_topic_node_by_name(name, canvas_id) ==
    {id \in DOMAIN topics : topics[id].name = name}

\* MATCH (n:Topic {name: $name, canvasId: $canvas_id}) RETURN n: the rows;
\* the caller takes whichever row comes first
get_topic_node_by_name_and_canvas(name, canvas_id) ==
    {id \in DOMAIN topics : topics[id].name = name /\ topics[id].canvas = canvas_id}

\* MATCH (c:Canvas {id: $canvas_id}) CREATE (n:Topic {...}): the topics
\* after the query; nothing is created without the canvas.  The knowledge
\* parameter is unwrap_or_default, so an absent knowledge is stored as "".
create_topic_node(insert_node) ==
    IF insert_node.canvas_id \in canvases
    THEN topics @@ (insert_node.id :>
            [canvas |-> insert_node.canvas_id, name |-> insert_node.name,
             kind |-> insert_node.node_type,
             knowledge |-> Some(UnwrapOr(insert_node.knowledge, KEmpty)),
             by |-> insert_node.by])
    ELSE topics

\* relationship_exists matching on the source alone
relationship_exists_from(source_id, target_id) ==
    \E e \in edges : e.source_id = source_id

\* relationship_exists matching the edge of the opposite direction
relationship_exists_reversed(source_id, target_id) ==
    \E e \in edges : e.source_id = target_id /\ e.target_id = source_id

\* MATCH (s:Topic {id})-[r:RELATED_TO]->(t:Topic {id}) RETURN COUNT(r) > 0
relationship_exists(source_id, target_id) ==
    \E e \in edges : e.source_id = source_id /\ e.target_id = target_id

\* MATCH (source:Topic {id}) MATCH (target:Topic {id}) CREATE (source)-[r]->
\* (target): the edges after the query; no row without both Topics
create_relationship(rel) ==
    IF rel.source_id \in DOMAIN topics /\ rel.target_id \in DOMAIN topics
    THEN edges \cup {rel}
    ELSE edges

\* uuid::Uuid::new_v4(): the k-th node id and the k-th relationship id that
\* call number n draws; no id is drawn twice, and the Topics of the initial
\* store have the ids 1 and 2
IdsPerCall == 2 * (MaxKeywords + 1)
NodeId(n, k) == n * IdsPerCall + k
RelationshipId(n, k) == n * IdsPerCall + MaxKeywords + 1 + k

InsertNode(id, canvas_id, name, node_type, by) ==
    [id |-> id, canvas_id |-> canvas_id, name |-> name, node_type |-> node_type,
     knowledge |-> None, by |-> by]

InsertRelationship(id, canvas_id, source_id, target_id, by) ==
    [id |-> id, canvas_id |-> canvas_id, source_id |-> source_id,
     target_id |-> target_id, by |-> by]

(***************************************************************************)
(* NodeService::create_node                                                *)
(***************************************************************************)
\* a name of more than 100 bytes
LongName == "a name of 101 bytes"

\* validate_create_request: the error message, or "" when the request is valid
validate_create_request(req) ==
    IF req.name = "" THEN "Node name cannot be empty"
    ELSE IF req.name = LongName THEN "Node name cannot exceed 100 characters"
    ELSE IF req.canvas_id = "" THEN "Canvas ID cannot be empty"
    ELSE IF req.node_type.some /\ req.node_type.v \notin {"original", "generated"}
    THEN "Node type must be 'original' or 'generated'"
    ELSE ""

\* the node type create_node stores
NodeTypeOf(req) ==
    IF req.parent_node_id.some THEN "generated"
    ELSE UnwrapOr(req.node_type, "original")

\* validation and get_canvas_by_id
CreateNodeStart(p, req, dbok) ==
    /\ CanStart(p)
    /\ LET base == [op |-> "create_node", pc |-> "done", id |-> ncalls + 1,
                    name |-> req.name, canvas_id |-> req.canvas_id,
                    node_type |-> NodeTypeOf(req),
                    parent_node_id |-> req.parent_node_id,
                    new_node |-> None, invoked |-> {}, result |-> Pending]
       IN  call' = [call EXCEPT ![p] =
              IF validate_create_request(req) # ""
              THEN [base EXCEPT !.result = Err("ValidationError", "validate")]
              ELSE IF ~dbok
              THEN [base EXCEPT !.result = Err("DatabaseError", "get_canvas_by_id")]
              ELSE IF ~get_canvas_by_id(req.canvas_id).some
              THEN [base EXCEPT !.result = Err("CanvasNotFound", "get_canvas_by_id")]
              ELSE [base EXCEPT !.pc = "check_name"]]
    /\ ncalls' = ncalls + 1
    /\ UNCHANGED <<canvases, topics, edges, clock, cfg, log>>

\* get_topic_node_by_name_and_canvas: TopicAlreadyExists when there is a row
CreateNodeCheckName(p, dbok) ==
    /\ call[p].op = "create_node" /\ call[p].pc = "check_name"
    /\ call' = [call EXCEPT ![p] =
          IF ~dbok
          THEN [@ EXCEPT !.pc = "done",
                         !.result = Err("DatabaseError", "get_topic_node_by_name_and_canvas")]
          ELSE IF get_topic_node_by_name_and_canvas(call[p].name, call[p].canvas_id) # {}
          THEN [@ EXCEPT !.pc = "done",
                         !.result = Err("TopicAlreadyExists", "get_topic_node_by_name_and_canvas")]
          ELSE [@ EXCEPT !.pc = "create"]]
    /\ UNCHANGED <<canvases, topics, edges, clock, cfg, log, ncalls>>

\* create_topic_node; the call is over when there is no parent
CreateNodeCreate(p, dbok) ==
    /\ call[p].op = "create_node" /\ call[p].pc = "create"
    /\ LET c == call[p]
           created == create_topic_node(
                         InsertNode(NodeId(c.id, 1), c.canvas_id, c.name, c.node_type, c.id))
       IN  IF dbok /\ created # topics
           THEN /\ topics' = created
                /\ call' = [call EXCEPT ![p] =
                      IF c.parent_node_id.some
                      THEN [c EXCEPT !.pc = "relate", !.new_node = Some(NodeId(c.id, 1))]
                      ELSE [c EXCEPT !.pc = "done", !.new_node = Some(NodeId(c.id, 1)),
                                     !.result = [status |-> "Ok", node |-> NodeId(c.id, 1)]]]
           ELSE /\ call' = [call EXCEPT ![p] =
                      [c EXCEPT !.pc = "done",
                                !.result = Err("DatabaseError", "create_topic_node")]]
                /\ UNCHANGED topics
    /\ UNCHANGED <<canvases, edges, clock, cfg, log, ncalls>>

\* create_relationship from the parent, without an existence check
CreateNodeRelate(p, dbok) ==
    /\ call[p].op = "create_node" /\ call[p].pc = "relate"
    /\ LET c == call[p]
           created == create_relationship(
                         InsertRelationship(RelationshipId(c.id, 1), c.canvas_id,
                                            c.parent_node_id.v, c.new_node.v, c.id))
       IN  IF dbok /\ created # edges
           THEN /\ edges' = created
                /\ call' = [call EXCEPT ![p] =
                      [c EXCEPT !.pc = "done",
                                !.result = [status |-> "Ok", node |-> c.new_node.v]]]
           ELSE /\ call' = [call EXCEPT ![p] =
                      [c EXCEPT !.pc = "done",
                                !.result = Err("DatabaseError", "create_relationship")]]
                /\ UNCHANGED edges
    /\ UNCHANGED <<canvases, topics, clock, cfg, log, ncalls>>

(***************************************************************************)
(* AIService::generate_keywords (expand)                                   *)
(***************************************************************************)
IsStr(v) == v.t = "scalar" /\ v.kind = "string"
StrOf(v) == v.str

\* ExtractKeywords that keeps an item that is no string as the keyword ""
ExtractKeywordsKeepAll(ai_result) ==
    IF HasKey(ai_result, "keywords") /\ ai_result.f["keywords"].t = "array"
    THEN LET items == ai_result.f["keywords"].items
         IN  [i \in 1..Len(items) |-> IF IsStr(items[i]) THEN StrOf(items[i]) ELSE ""]
    ELSE <<>>

\* ai_result.get("keywords").and_then(as_array): the string items, in
\* order; no keywords when the field is missing or is not an array
ExtractKeywords(ai_result) ==
    IF HasKey(ai_result, "keywords") /\ ai_result.f["keywords"].t = "array"
    THEN LET strs == SelectSeq(ai_result.f["keywords"].items, IsStr)
         IN  [i \in 1..Len(strs) |-> StrOf(strs[i])]
    ELSE <<>>

\* GenerateKeywordsStart without the CanvasNotFound exit
GenerateKeywordsStartNoCanvas(p, req, dbok) ==
    /\ CanStart(p)
    /\ LET base == [op |-> "generate_keywords", pc |-> "done", id |-> ncalls + 1,
                    canvas_id |-> req.canvas_id, topic_name |-> req.topic_name,
                    node_count |-> UnwrapOr(req.node_count, 3),
                    is_automatic |-> UnwrapOr(req.is_automatic, FALSE),
                    source_topic |-> None, ai_text |-> None, ai_result |-> None,
                    keywords |-> <<>>,
                    new_nodes |-> <<>>, new_edges |-> <<>>,
                    invoked |-> {}, raced |-> FALSE, result |-> Pending]
       IN  call' = [call EXCEPT ![p] =
              IF ~dbok
              THEN [base EXCEPT !.result = Err("DatabaseError", "get_canvas_by_id")]
              ELSE [base EXCEPT !.pc = "topic"]]
    /\ ncalls' = ncalls + 1
    /\ UNCHANGED <<canvases, topics, edges, clock, cfg, log>>

\* get_canvas_by_id: DatabaseError, CanvasNotFound, or the canvas is there
GenerateKeywordsStart(p, req, dbok) ==
    /\ CanStart(p)
    /\ LET base == [op |-> "generate_keywords", pc |-> "done", id |-> ncalls + 1,
                    canvas_id |-> req.canvas_id, topic_name |-> req.topic_name,
                    node_count |-> UnwrapOr(req.node_count, 3),
                    is_automatic |-> UnwrapOr(req.is_automatic, FALSE),
                    source_topic |-> None, ai_text |-> None, ai_result |-> None,
                    keywords |-> <<>>,
                    new_nodes |-> <<>>, new_edges |-> <<>>,
                    invoked |-> {}, raced |-> FALSE, result |-> Pending]
       IN  call' = [call EXCEPT ![p] =
              IF ~dbok
              THEN [base EXCEPT !.result = Err("DatabaseError", "get_canvas_by_id")]
              ELSE IF ~get_canvas_by_id(req.canvas_id).some
              THEN [base EXCEPT !.result = Err("CanvasNotFound", "get_canvas_by_id")]
              ELSE [base EXCEPT !.pc = "topic"]]
    /\ ncalls' = ncalls + 1
    /\ UNCHANGED <<canvases, topics, edges, clock, cfg, log>>

\* the rows get_topic_by_name_and_canvas can answer with first: None when
\* there is no row
SourceRows(name, canvas_id) ==
    LET rows == get_topic_node_by_name_and_canvas(name, canvas_id)
    IN  IF rows = {} THEN {None} ELSE {Some(id) : id \in rows}

\* get_topic_by_name_and_canvas: DatabaseError, TopicNotFound, or the source
GenerateKeywordsTopic(p, dbok, row) ==
    /\ call[p].op = "generate_keywords" /\ call[p].pc = "topic"
    /\ row \in SourceRows(call[p].topic_name, call[p].canvas_id)
    /\ call' = [call EXCEPT ![p] =
          IF ~dbok
          THEN [@ EXCEPT !.pc = "done",
                         !.result = Err("DatabaseError", "get_topic_by_name_and_canvas")]
          ELSE IF ~row.some
          THEN [@ EXCEPT !.pc = "done",
                         !.result = Err("TopicNotFound", "get_topic_by_name_and_canvas")]
          ELSE [@ EXCEPT !.pc = "context", !.source_topic = row]]
    /\ UNCHANGED <<canvases, topics, edges, clock, cfg, log, ncalls>>

\* get_topic_path, get_existing_siblings, get_topic_children: any of the
\* three reads may fail; their values only feed the prompt
GenerateKeywordsContext(p, dbok) ==
    /\ call[p].op = "generate_keywords" /\ call[p].pc = "context"
    /\ call' = [call EXCEPT ![p] =
          IF dbok THEN [@ EXCEPT !.pc = "model"]
          ELSE [@ EXCEPT !.pc = "done", !.result = Err("DatabaseError", "get_topic_path")]]
    /\ UNCHANGED <<canvases, topics, edges, clock, cfg, log, ncalls>>

\* the response of a call whose loop has ended
KeywordsResponse(c) ==
    [status |-> "Ok", keywords |-> c.keywords, edges |-> c.new_edges]

\* the loop head: the next keyword, or the return
LoopNext(c) ==
    IF Len(c.new_nodes) < Len(c.keywords)
    THEN [c EXCEPT !.pc = "create"]
    ELSE [c EXCEPT !.pc = "done", !.result = KeywordsResponse(c)]

\* generate_content, from_str and the extraction of the keywords
GenerateKeywordsModelCall(p, ai) ==
    /\ call[p].op = "generate_keywords" /\ call[p].pc = "model"
    /\ call' = [call EXCEPT ![p] =
          IF ~ai.ok
          THEN [@ EXCEPT !.pc = "done", !.invoked = @ \cup {"model"},
                         !.result = Err("AIServiceError", "generate_content")]
          ELSE IF ~from_str(ai.text).ok
          THEN [@ EXCEPT !.pc = "done", !.invoked = @ \cup {"model"},
                         !.ai_text = Some(ai.text),
                         !.result = Err("InvalidResponseFormat", "from_str")]
          ELSE LoopNext([@ EXCEPT !.invoked = @ \cup {"model"},
                                  !.ai_text = Some(ai.text),
                                  !.ai_result = Some(from_str(ai.text).v),
                                  !.keywords = ExtractKeywords(from_str(ai.text).v)])]
    /\ UNCHANGED <<canvases, topics, edges, clock, cfg, log, ncalls>>

\* GenerateKeywordsCreateTopic that takes the Topic of that name when the
\* canvas already holds one
GenerateKeywordsReuseTopic(p, dbok) ==
    /\ call[p].op = "generate_keywords" /\ call[p].pc = "create"
    /\ LET c == call[p]
           keyword == c.keywords[Len(c.new_nodes) + 1]
           rows == get_topic_node_by_name_and_canvas(keyword, c.canvas_id)
           new == NodeId(c.id, Len(c.new_nodes) + 1)
           created == create_topic_node(
                         InsertNode(new, c.canvas_id, keyword, "generated", c.id))
       IN  IF dbok /\ rows # {}
           THEN /\ \E id \in rows :
                      call' = [call EXCEPT ![p] =
                         [c EXCEPT !.pc = "exists", !.new_nodes = Append(@, id)]]
                /\ UNCHANGED topics
           ELSE IF dbok /\ created # topics
           THEN /\ topics' = created
                /\ call' = [call EXCEPT ![p] =
                      [c EXCEPT !.pc = "exists", !.new_nodes = Append(@, new)]]
           ELSE /\ call' = [call EXCEPT ![p] =
                      [c EXCEPT !.pc = "done",
                                !.result = Err("DatabaseError", "create_topic_node")]]
                /\ UNCHANGED topics
    /\ UNCHANGED <<canvases, edges, clock, cfg, log, ncalls>>

\* create_topic_node for the next keyword, kind "generated"
GenerateKeywordsCreateTopic(p, dbok) ==
    /\ call[p].op = "generate_keywords" /\ call[p].pc = "create"
    /\ LET c == call[p]
           keyword == c.keywords[Len(c.new_nodes) + 1]
           id == NodeId(c.id, Len(c.new_nodes) + 1)
           created == create_topic_node(
                         InsertNode(id, c.canvas_id, keyword, "generated", c.id))
       IN  IF dbok /\ created # topics
           THEN /\ topics' = created
                /\ call' = [call EXCEPT ![p] =
                      [c EXCEPT !.pc = "exists", !.new_nodes = Append(@, id)]]
           ELSE /\ call' = [call EXCEPT ![p] =
                      [c EXCEPT !.pc = "done",
                                !.result = Err("DatabaseError", "create_topic_node")]]
                /\ UNCHANGED topics
    /\ UNCHANGED <<canvases, edges, clock, cfg, log, ncalls>>

\* another expand call of the same source Topic stands between its
\* relationship_exists and its create_relationship
OtherBetween(p) ==
    \E q \in Procs \ {p} :
        /\ call[q].op = "generate_keywords" /\ call[q].pc = "relate"
        /\ call[q].source_topic = call[p].source_topic

\* relationship_exists(source, new Topic): the edge is skipped when it is
\* already there
GenerateKeywordsRelExists(p, dbok) ==
    /\ call[p].op = "generate_keywords" /\ call[p].pc = "exists"
    /\ LET c == call[p]
           keyword_topic_id == c.new_nodes[Len(c.new_nodes)]
       IN  call' = [call EXCEPT ![p] =
              IF ~dbok
              THEN [c EXCEPT !.pc = "done",
                             !.result = Err("DatabaseError", "relationship_exists")]
              ELSE IF relationship_exists(c.source_topic.v, keyword_topic_id)
              THEN LoopNext(c)
              ELSE [c EXCEPT !.pc = "relate", !.raced = @ \/ OtherBetween(p)]]
    /\ UNCHANGED <<canvases, topics, edges, clock, cfg, log, ncalls>>

\* GenerateKeywordsCreateRel whose edge runs from the new Topic to the source
GenerateKeywordsCreateRelReversed(p, dbok) ==
    /\ call[p].op = "generate_keywords" /\ call[p].pc = "relate"
    /\ LET c == call[p]
           id == RelationshipId(c.id, Len(c.new_nodes))
           created == create_relationship(
                         InsertRelationship(id, c.canvas_id,
                                            c.new_nodes[Len(c.new_nodes)],
                                            c.source_topic.v, c.id))
       IN  IF dbok /\ created # edges
           THEN /\ edges' = created
                /\ call' = [call EXCEPT ![p] =
                      LoopNext([c EXCEPT !.new_edges = Append(@, id)])]
           ELSE /\ call' = [call EXCEPT ![p] =
                      [c EXCEPT !.pc = "done",
                                !.result = Err("DatabaseError", "create_relationship")]]
                /\ UNCHANGED edges
    /\ UNCHANGED <<canvases, topics, clock, cfg, log, ncalls>>

\* GenerateKeywordsCreateRel that undoes the work of the call when the
\* edge cannot be created: the Topics and edges of the call are removed
GenerateKeywordsCreateRelRollback(p, dbok) ==
    /\ call[p].op = "generate_keywords" /\ call[p].pc = "relate"
    /\ LET c == call[p]
           id == RelationshipId(c.id, Len(c.new_nodes))
           created == create_relationship(
                         InsertRelationship(id, c.canvas_id, c.source_topic.v,
                                            c.new_nodes[Len(c.new_nodes)], c.id))
       IN  IF dbok /\ created # edges
           THEN /\ edges' = created
                /\ call' = [call EXCEPT ![p] =
                      LoopNext([c EXCEPT !.new_edges = Append(@, id)])]
                /\ UNCHANGED topics
           ELSE /\ call' = [call EXCEPT ![p] =
                      [c EXCEPT !.pc = "done",
                                !.result = Err("DatabaseError", "create_relationship")]]
                /\ edges' = {e \in edges : e.by # c.id}
                /\ topics' = [t \in {x \in DOMAIN topics : topics[x].by # c.id}
                                 |-> topics[t]]
    /\ UNCHANGED <<canvases, clock, cfg, log, ncalls>>

\* create_relationship(source, new Topic) and new_edges.push
GenerateKeywordsCreateRel(p, dbok) ==
    /\ call[p].op = "generate_keywords" /\ call[p].pc = "relate"
    /\ LET c == call[p]
           id == RelationshipId(c.id, Len(c.new_nodes))
           created == create_relationship(
                         InsertRelationship(id, c.canvas_id, c.source_topic.v,
                                            c.new_nodes[Len(c.new_nodes)], c.id))
       IN  IF dbok /\ created # edges
           THEN /\ edges' = created
                /\ call' = [call EXCEPT ![p] =
                      LoopNext([c EXCEPT !.new_edges = Append(@, id)])]
           ELSE /\ call' = [call EXCEPT ![p] =
                      [c EXCEPT !.pc = "done",
                                !.result = Err("DatabaseError", "create_relationship")]]
                /\ UNCHANGED edges
    /\ UNCHANGED <<canvases, topics, clock, cfg, log, ncalls>>

(***************************************************************************)
(* Spec: two clients call create_node and generate_keywords on a store of  *)
(* two canvases, C1 holding the Topic "a".                                 *)
(***************************************************************************)
\* the requests of create_node: every name, canvas and parent (Topic 1, the
\* id 0 of no Topic, or none), and one request for each way to fail the
\* validation and to choose the node type
CreateNodeRequest(name, canvas_id, node_type, parent_node_id) ==
    [name |-> name, canvas_id |-> canvas_id, node_type |-> node_type,
     parent_node_id |-> parent_node_id]
CreateNodeRequests ==
    [name : Names, canvas_id : CanvasIds, node_type : {None},
     parent_node_id : {None, Some(1), Some(0)}]
    \cup {CreateNodeRequest("", "C1", None, None),
          CreateNodeRequest(LongName, "C1", None, None),
          CreateNodeRequest("b", "", None, None),
          CreateNodeRequest("b", "C1", Some("bogus"), None),
          CreateNodeRequest("b", "C1", Some("generated"), None),
          CreateNodeRequest("b", "C1", Some("original"), Some(1))}

\* every canvas and name with the defaults of node_count and is_automatic,
\* and one request in automatic mode and one with a node count
GenerateKeywordsRequest(canvas_id, topic_name, node_count, is_automatic) ==
    [canvas_id |-> canvas_id, topic_name |-> topic_name,
     node_count |-> node_count, is_automatic |-> is_automatic]
GenerateKeywordsRequests ==
    [canvas_id : CanvasIds, topic_name : Names, node_count : {None},
     is_automatic : {None}]
    \cup {GenerateKeywordsRequest("C1", "a", None, Some(TRUE)),
          GenerateKeywordsRequest("C1", "a", Some(1), Some(FALSE))}

\* the items of a keywords array: strings and a value that is no string
KeywordItems == {JStr(n) : n \in Names} \cup {JScalar("number")}
KeywordLists == UNION {[1..n -> KeywordItems] : n \in 0..MaxKeywords}

\* generate_content of the expand call: an error, a text that is not JSON,
\* or a JSON value with or without a keywords array
KeywordAnswers ==
    {[ok |-> FALSE, text |-> KEmpty], Answer(KRaw), Answer(KJson(JArr(<<>>))),
     Answer(KJson(JObj(EmptyFields))),
     Answer(KJson(JObj("keywords" :> JStr("a"))))}
    \cup {Answer(KJson(JObj("keywords" :> JArr(l)))) : l \in KeywordLists}

Init ==
    /\ canvases = {"C1", "C2"}
    /\ topics = (1 :> TopicA(Some(KEmpty)))
    /\ edges = {}
    /\ clock = 1
    /\ cfg = NoServices
    /\ call = [p \in Procs |-> Idle]
    /\ ncalls = 0
    /\ log = <<>>

CreateNodeStep(p) ==
    \/ \E dbok \in BOOLEAN : CreateNodeCheckName(p, dbok)
    \/ \E dbok \in BOOLEAN : CreateNodeCreate(p, dbok)
    \/ \E dbok \in BOOLEAN : CreateNodeRelate(p, dbok)

GenerateKeywordsStep(p) ==
    \/ \E dbok \in BOOLEAN, row \in {None} \cup {Some(id) : id \in DOMAIN topics} :
          GenerateKeywordsTopic(p, dbok, row)
    \/ \E dbok \in BOOLEAN : GenerateKeywordsContext(p, dbok)
    \/ \E ai \in KeywordAnswers : GenerateKeywordsModelCall(p, ai)
    \/ \E dbok \in BOOLEAN : GenerateKeywordsCreateTopic(p, dbok)
    \/ \E dbok \in BOOLEAN : GenerateKeywordsRelExists(p, dbok)
    \/ \E dbok \in BOOLEAN : GenerateKeywordsCreateRel(p, dbok)

Next ==
    \E p \in Procs :
        \/ /\ ncalls < MaxCalls
           /\ \E req \in CreateNodeRequests, dbok \in BOOLEAN :
                 CreateNodeStart(p, req, dbok)
        \/ /\ ncalls < MaxCalls
           /\ \E req \in GenerateKeywordsRequests, dbok \in BOOLEAN :
                 GenerateKeywordsStart(p, req, dbok)
        \/ CreateNodeStep(p)
        \/ GenerateKeywordsStep(p)

Spec == Init /\ [][Next]_vars

(***************************************************************************)
(* SpecRel: one single-threaded caller of NodeDao that links pairs of      *)
(* Topics the way the loop of generate_keywords does, relationship_exists  *)
(* first and create_relationship only after the answer false.              *)
(***************************************************************************)
\* relationship_exists(source, target)
LinkStart(p, source_id, target_id, dbok) ==
    /\ CanStart(p)
    /\ LET base == [op |-> "link", pc |-> "done", id |-> ncalls + 1,
                    source_id |-> source_id, target_id |-> target_id,
                    result |-> Pending]
       IN  call' = [call EXCEPT ![p] =
              IF ~dbok
              THEN [base EXCEPT !.result = Err("DatabaseError", "relationship_exists")]
              ELSE IF relationship_exists(source_id, target_id)
              THEN [base EXCEPT !.result = [status |-> "Ok", created |-> FALSE]]
              ELSE [base EXCEPT !.pc = "relate"]]
    /\ ncalls' = ncalls + 1
    /\ UNCHANGED <<canvases, topics, edges, clock, cfg, log>>

\* create_relationship(source, target)
LinkCreate(p, dbok) ==
    /\ call[p].op = "link" /\ call[p].pc = "relate"
    /\ LET c == call[p]
           created == create_relationship(
                         InsertRelationship(RelationshipId(c.id, 1), "C1",
                                            c.source_id, c.target_id, c.id))
       IN  IF dbok /\ created # edges
           THEN /\ edges' = created
                /\ call' = [call EXCEPT ![p] =
                      [c EXCEPT !.pc = "done",
                                !.result = [status |-> "Ok", created |-> TRUE]]]
           ELSE /\ call' = [call EXCEPT ![p] =
                      [c EXCEPT !.pc = "done",
                                !.result = Err("DatabaseError", "create_relationship")]]
                /\ UNCHANGED edges
    /\ UNCHANGED <<canvases, topics, clock, cfg, log, ncalls>>

TopicB == [canvas |-> "C1", name |-> "b", kind |-> "generated",
           knowledge |-> Some(KEmpty), by |-> 0]

\* the ids a caller passes: the Topics 1 and 2, and 0, which is no Topic
LinkIds == {0, 1, 2}

InitRel ==
    /\ canvases = {"C1", "C2"}
    /\ topics = (1 :> TopicA(Some(KEmpty))) @@ (2 :> TopicB)
    /\ edges = {}
    /\ clock = 1
    /\ cfg = NoServices
    /\ call = [p \in Procs |-> Idle]
    /\ ncalls = 0
    /\ log = <<>>

NextRel ==
    \/ /\ ncalls < MaxRelCalls
       /\ \E s \in LinkIds, t \in LinkIds, dbok \in BOOLEAN : LinkStart("p1", s, t, dbok)
    \/ \E dbok \in BOOLEAN : LinkCreate("p1", dbok)

SpecRel == InitRel /\ [][NextRel]_vars

(***************************************************************************)
(* NodeDao and CanvasDao, the queries over the tree of Topics.             *)
(***************************************************************************)
\* the Topics of the canvas that no RELATED_TO edge points to
Roots(canvas_id) ==
    {r \in DOMAIN topics :
        topics[r].canvas = canvas_id /\ ~(\E e \in edges : e.target_id = r)}

\* the Topic a chain of edges starts at; the chain of no edge starts at its
\* target
PathStart(path, target) == IF path = <<>> THEN target ELSE path[1].source_id

\* (root)-[:RELATED_TO*n]->(target): the chains of exactly n edges that end
\* at target, no edge taken twice
RECURSIVE EdgePaths(_, _)
EdgePaths(target, n) ==
    IF n = 0 THEN {<<>>}
    ELSE UNION {{<<e>> \o path :
                    e \in {x \in edges :
                              /\ x.target_id = PathStart(path, target)
                              /\ \A i \in 1..Len(path) : path[i].id # x.id}} :
                path \in EdgePaths(target, n - 1)}

\* [node IN nodes(path) | node.name]
PathNames(path, target) ==
    [i \in 1..(Len(path) + 1) |->
        IF i = 1 THEN topics[PathStart(path, target)].name
        ELSE topics[path[i - 1].target_id].name]

\* the chains of RELATED_TO*0.. from a root of the canvas to the target
MatchedPaths(topic_id, canvas_id) ==
    IF topic_id \notin DOMAIN topics THEN {}
    ELSE {path \in UNION {EdgePaths(topic_id, n) : n \in 0..Cardinality(edges)} :
            PathStart(path, topic_id) \in Roots(canvas_id)}

\* get_topic_node_path listing the names from the Topic up to the root
get_topic_node_path_leaf_first(topic_id, canvas_id) ==
    LET matched == MatchedPaths(topic_id, canvas_id)
        shortest == {path \in matched : \A q \in matched : Len(path) <= Len(q)}
    IN  IF matched = {} THEN {<<>>}
        ELSE {[i \in 1..(Len(path) + 1) |->
                  PathNames(path, topic_id)[Len(path) + 2 - i]] : path \in shortest}

\* get_topic_node_path that takes every Topic for a root
get_topic_node_path_any_root(topic_id, canvas_id) ==
    IF topic_id \in DOMAIN topics THEN {<<topics[topic_id].name>>} ELSE {<<>>}

\* MATCH path = (root)-[:RELATED_TO*0..]->(target {id}) WHERE root has the
\* canvas and no incoming edge, ORDER BY length(path) LIMIT 1: the rows the
\* query can answer with (one of the shortest chains), the empty list when
\* there is no row
get_topic_node_path(topic_id, canvas_id) ==
    LET matched == MatchedPaths(topic_id, canvas_id)
        shortest == {path \in matched : \A q \in matched : Len(path) <= Len(q)}
    IN  IF matched = {} THEN {<<>>}
        ELSE {PathNames(path, topic_id) : path \in shortest}

\* the edges into the Topic current {id: $topic_id, canvasId: $canvas_id}
ParentEdges(topic_id, canvas_id) ==
    {e \in edges : /\ topic_id \in DOMAIN topics
                   /\ topics[topic_id].canvas = canvas_id
                   /\ e.target_id = topic_id}

\* get_existing_siblings that lists only the siblings of a greater id
get_existing_siblings_younger(topic_id, canvas_id) ==
    UNION {{[parent |-> e1.source_id, sibling |-> e2.target_id] :
               e2 \in {e \in edges : /\ e.source_id = e1.source_id
                                      /\ e.target_id > topic_id}} :
           e1 \in ParentEdges(topic_id, canvas_id)}

\* MATCH (parent)-[:RELATED_TO]->(current {id, canvasId}) MATCH (parent)-
\* [:RELATED_TO]->(sibling) WHERE sibling.id <> $topic_id: the rows, one for
\* every edge into the Topic and every edge from that parent to another
\* Topic
get_existing_siblings(topic_id, canvas_id) ==
    UNION {{[parent |-> e1.source_id, sibling |-> e2.target_id] :
               e2 \in {e \in edges : /\ e.source_id = e1.source_id
                                      /\ e.target_id # topic_id}} :
           e1 \in ParentEdges(topic_id, canvas_id)}

\* MATCH (current:Topic {id: $topic_id, canvasId: $canvas_id})
\* -[:RELATED_TO]->(child:Topic) RETURN COLLECT(child.name): the names of
\* the Topics at the end of an edge from the Topic
get_topic_node_children(topic_id, canvas_id) ==
    {topics[e.target_id].name :
        e \in {x \in edges : /\ topic_id \in DOMAIN topics
                             /\ topics[topic_id].canvas = canvas_id
                             /\ x.source_id = topic_id
                             /\ x.target_id \in DOMAIN topics}}

\* COLLECT(sibling.name)
SiblingNames(rows) == {topics[r.sibling].name : r \in rows}

\* delete_topic_node that leaves the edges of the Topic behind
delete_topic_node_keep_edges(id) ==
    [topics |-> [t \in DOMAIN topics \ {id} |-> topics[t]],
     edges |-> edges,
     deleted_count |-> IF id \in DOMAIN topics THEN 1 ELSE 0]

\* MATCH (n:Topic {id: $id}) DETACH DELETE n RETURN count(n): the store
\* after the query and the count
delete_topic_node(id) ==
    [topics |-> [t \in DOMAIN topics \ {id} |-> topics[t]],
     edges |-> {e \in edges : e.source_id # id /\ e.target_id # id},
     deleted_count |-> IF id \in DOMAIN topics THEN 1 ELSE 0]

\* MATCH (c:Canvas {id: $id}) DETACH DELETE c RETURN count(c): the canvas
\* node goes, with its CONTAINS edges; the query names no Topic
delete_canvas(id) ==
    [canvases |-> canvases \ {id},
     deleted_count |-> IF id \in canvases THEN 1 ELSE 0]

(***************************************************************************)
(* The calls of the tree: NodeDao::get_topic_node_path,                    *)
(* NodeDao::get_existing_siblings, NodeService::delete_node and            *)
(* CanvasService::delete_canvas.  Each is one query.                       *)
(***************************************************************************)
\* the empty id "", which delete_node rejects
BlankId == 0 - 1

\* NodeDao::get_topic_node_path: the first row of the query
GetTopicNodePath(p, topic_id, canvas_id, dbok) ==
    /\ CanStart(p)
    /\ \E row \in get_topic_node_path(topic_id, canvas_id) :
          call' = [call EXCEPT ![p] =
             [op |-> "get_topic_node_path", pc |-> "done", id |-> ncalls + 1,
              topic_id |-> topic_id, canvas_id |-> canvas_id,
              result |-> IF dbok THEN [status |-> "Ok", names |-> row]
                         ELSE Err("DatabaseError", "get_topic_node_path")]]
    /\ ncalls' = ncalls + 1
    /\ UNCHANGED <<canvases, topics, edges, clock, cfg, log>>

\* NodeDao::get_existing_siblings: the collected names
GetExistingSiblings(p, topic_id, canvas_id, dbok) ==
    /\ CanStart(p)
    /\ LET rows == get_existing_siblings(topic_id, canvas_id)
       IN  call' = [call EXCEPT ![p] =
              [op |-> "get_existing_siblings", pc |-> "done", id |-> ncalls + 1,
               topic_id |-> topic_id, canvas_id |-> canvas_id,
               result |-> IF dbok
                          THEN [status |-> "Ok", names |-> SiblingNames(rows),
                                rows |-> rows]
                          ELSE Err("DatabaseError", "get_existing_siblings")]]
    /\ ncalls' = ncalls + 1
    /\ UNCHANGED <<canvases, topics, edges, clock, cfg, log>>

\* NodeService::delete_node: the id is validated, then the Topic is deleted
DeleteNode(p, id, dbok) ==
    /\ CanStart(p)
    /\ LET base == [op |-> "delete_node", pc |-> "done", id |-> ncalls + 1,
                    node_id |-> id, result |-> Pending]
           deleted == delete_topic_node(id)
       IN  IF id = BlankId
           THEN /\ call' = [call EXCEPT ![p] =
                      [base EXCEPT !.result = Err("ValidationError", "validate")]]
                /\ UNCHANGED <<topics, edges>>
           ELSE IF ~dbok
           THEN /\ call' = [call EXCEPT ![p] =
                      [base EXCEPT !.result = Err("DatabaseError", "delete_topic_node")]]
                /\ UNCHANGED <<topics, edges>>
           ELSE /\ topics' = deleted.topics
                /\ edges' = deleted.edges
                /\ call' = [call EXCEPT ![p] =
                      IF deleted.deleted_count = 0
                      THEN [base EXCEPT !.result = Err("NotFound", "delete_topic_node")]
                      ELSE [base EXCEPT !.result = [status |-> "Ok"]]]
    /\ ncalls' = ncalls + 1
    /\ UNCHANGED <<canvases, clock, cfg, log>>

\* CanvasService::delete_canvas: the id is validated, then the canvas is
\* deleted
DeleteCanvas(p, id, dbok) ==
    /\ CanStart(p)
    /\ LET base == [op |-> "delete_canvas", pc |-> "done", id |-> ncalls + 1,
                    canvas_id |-> id, result |-> Pending]
           deleted == delete_canvas(id)
       IN  IF id = ""
           THEN /\ call' = [call EXCEPT ![p] =
                      [base EXCEPT !.result = Err("ValidationError", "validate_id")]]
                /\ UNCHANGED canvases
           ELSE IF ~dbok
           THEN /\ call' = [call EXCEPT ![p] =
                      [base EXCEPT !.result = Err("DatabaseError", "delete_canvas")]]
                /\ UNCHANGED canvases
           ELSE /\ canvases' = deleted.canvases
                /\ call' = [call EXCEPT ![p] =
                      IF deleted.deleted_count = 0
                      THEN [base EXCEPT !.result = Err("NotFound", "delete_canvas")]
                      ELSE [base EXCEPT !.result = [status |-> "Ok"]]]
    /\ ncalls' = ncalls + 1
    /\ UNCHANGED <<topics, edges, clock, cfg, log>>

\* the relationships of a type from a canvas to a Topic: create_topic_node
\* writes (c)-[:CONTAINS]->(n) from the canvas it matched, and nothing
\* writes a relationship of another type between a canvas and a Topic
CanvasLinks(type) ==
    IF type = "CONTAINS"
    THEN {<<topics[t].canvas, t>> : t \in {x \in DOMAIN topics : topics[x].canvas \in canvases}}
    ELSE {}

\* the relationships of a type between Topics: create_relationship writes
\* RELATED_TO, and nothing writes another type
TopicLinks(type) == IF type = "RELATED_TO" THEN edges ELSE {}

\* MATCH (c:Canvas {id: $canvas_id})-[:BELONGS_TO]->(t:Topic) RETURN t
get_topics_by_canvas(canvas_id) ==
    {t \in DOMAIN topics : <<canvas_id, t>> \in CanvasLinks("BELONGS_TO")}

\* MATCH (c:Canvas {id: $canvas_id})-[:BELONGS_TO]->(t1:Topic)
\* -[r:RELATES_TO]->(t2:Topic)<-[:BELONGS_TO]-(c) RETURN r.id, t1.id, t2.id
get_relationships_by_canvas(canvas_id) ==
    {e \in TopicLinks("RELATES_TO") :
        /\ <<canvas_id, e.source_id>> \in CanvasLinks("BELONGS_TO")
        /\ <<canvas_id, e.target_id>> \in CanvasLinks("BELONGS_TO")}

\* CanvasService::get_graph_data up to the answer of get_topics_by_canvas
GetGraphDataStart(p, canvas_id, dbok) ==
    /\ CanStart(p)
    /\ LET base == [op |-> "get_graph_data", pc |-> "relationships", id |-> ncalls + 1,
                    canvas_id |-> canvas_id, nodes |-> {}, result |-> Pending]
       IN  call' = [call EXCEPT ![p] =
              IF canvas_id = ""
              THEN [base EXCEPT !.pc = "done",
                                !.result = Err("ValidationError", "validate_id")]
              ELSE IF ~dbok
              THEN [base EXCEPT !.pc = "done",
                                !.result = Err("DatabaseError", "get_topics_by_canvas")]
              ELSE [base EXCEPT !.nodes = get_topics_by_canvas(canvas_id)]]
    /\ ncalls' = ncalls + 1
    /\ UNCHANGED <<canvases, topics, edges, clock, cfg, log>>

\* get_relationships_by_canvas and the GraphData returned
GetGraphDataRelationships(p, dbok) ==
    /\ call[p].op = "get_graph_data" /\ call[p].pc = "relationships"
    /\ call' = [call EXCEPT ![p] =
          IF ~dbok
          THEN [@ EXCEPT !.pc = "done",
                         !.result = Err("DatabaseError", "get_relationships_by_canvas")]
          ELSE [@ EXCEPT !.pc = "done",
                         !.result = [status |-> "Ok", nodes |-> call[p].nodes,
                                     edges |-> get_relationships_by_canvas(
                                                  call[p].canvas_id)]]]
    /\ UNCHANGED <<canvases, topics, edges, clock, cfg, log, ncalls>>

(***************************************************************************)
(* SpecTree: one caller links, reads and deletes on a store of two         *)
(* canvases: C1 holds the Topics a, b and c with the edge a -> b, C2 holds *)
(* the Topic d.                                                            *)
(***************************************************************************)
\* calls of one behaviour of SpecTree
MaxTreeCalls == 3

TopicOf(canvas_id, name) ==
    [canvas |-> canvas_id, name |-> name, kind |-> "original",
     knowledge |-> Some(KEmpty), by |-> 0]

\* the ids a caller passes: the four Topics, 5, which is no Topic, and ""
TreeIds == {BlankId, 1, 2, 3, 4, 5}
TreeCanvasIds == {"", "C0", "C1", "C2"}

InitTree ==
    /\ canvases = {"C1", "C2"}
    /\ topics = (1 :> TopicOf("C1", "a")) @@ (2 :> TopicOf("C1", "b"))
                 @@ (3 :> TopicOf("C1", "c")) @@ (4 :> TopicOf("C2", "d"))
    /\ edges = {InsertRelationship(RelationshipId(0, 0), "C1", 1, 2, 0)}
    /\ clock = 1
    /\ cfg = NoServices
    /\ call = [p \in Procs |-> Idle]
    /\ ncalls = 0
    /\ log = <<>>

NextTree ==
    \/ /\ ncalls < MaxTreeCalls
       /\ \E s \in 1..4, t \in 1..4, dbok \in BOOLEAN : LinkStart("p1", s, t, dbok)
    \/ \E dbok \in BOOLEAN : LinkCreate("p1", dbok)
    \/ /\ ncalls < MaxTreeCalls
       /\ \E id \in TreeIds, c \in TreeCanvasIds, dbok \in BOOLEAN :
             GetTopicNodePath("p1", id, c, dbok)
    \/ /\ ncalls < MaxTreeCalls
       /\ \E id \in TreeIds, c \in TreeCanvasIds, dbok \in BOOLEAN :
             GetExistingSiblings("p1", id, c, dbok)
    \/ /\ ncalls < MaxTreeCalls
       /\ \E id \in TreeIds, dbok \in BOOLEAN : DeleteNode("p1", id, dbok)
    \/ /\ ncalls < MaxTreeCalls
       /\ \E id \in TreeCanvasIds, dbok \in BOOLEAN : DeleteCanvas("p1", id, dbok)

SpecTree == InitTree /\ [][NextTree]_vars

(***************************************************************************)
(* SpecShared: two clients enrich, expand, delete and read the graph on    *)
(* one canvas that holds the Topic a, with one of three knowledge values,  *)
(* and its child b.                                                        *)
(***************************************************************************)
\* calls of one behaviour of SpecShared, over both clients
MaxSharedCalls == 2

\* the ids of the requests: the Topics a and b, and 3, which is no Topic
SharedIds == {1, 2, 3}
SharedEnrichRequests ==
    [topic_node_id : SharedIds, canvas_id : {"C1"},
     include_web_search : {None}, include_news_search : {None}]
SharedAnswers == {Failure, Answer("insight")}
SharedKeywordsRequests ==
    {GenerateKeywordsRequest(c, n, None, None) : c \in {"C0", "C1"}, n \in {"a", "c"}}
SharedKeywordAnswers ==
    {[ok |-> FALSE, text |-> KEmpty], Answer(KRaw),
     Answer(KJson(JObj("keywords" :> JArr(<<JStr("c")>>))))}

\* the knowledge of a: empty, a client's own key, or the result of one
\* earlier enrich call together with a client's own key
SharedKnowledge ==
    {Some(KEmpty), Some(KJson(JObj("other" :> JScalar("string")))),
     Some(KJson(JObj(("other" :> JScalar("string"))
                     @@ ("searchHistory" :> JArr(OldHistory(1)))
                     @@ ("googleSearchStatus" :> JScalar("completed"))
                     @@ ("latestGoogleSearch" :> OldLatest))))}

InitShared ==
    /\ canvases = {"C1"}
    /\ \E kn \in SharedKnowledge :
          /\ topics = (1 :> TopicA(kn)) @@ (2 :> TopicB)
          /\ log = IF kn = Some(KEmpty) \/ "searchHistory" \notin DOMAIN kn.v.v.f
                   THEN <<>> ELSE <<0>>
    /\ edges = {InsertRelationship(RelationshipId(0, 0), "C1", 1, 2, 0)}
    /\ clock = 1
    /\ cfg = NoServices
    /\ call = [p \in Procs |-> Idle]
    /\ ncalls = 0

NextShared ==
    \E p \in Procs :
        \/ /\ ncalls < MaxSharedCalls
           /\ \E req \in SharedEnrichRequests, dbok \in BOOLEAN : EnrichStart(p, req, dbok)
        \/ EnrichStep(p, SharedAnswers)
        \/ /\ ncalls < MaxSharedCalls
           /\ \E id \in SharedIds, dbok \in BOOLEAN : DeleteNode(p, id, dbok)
        \/ /\ ncalls < MaxSharedCalls
           /\ \E req \in SharedKeywordsRequests, dbok \in BOOLEAN :
                 GenerateKeywordsStart(p, req, dbok)
        \/ \E dbok \in BOOLEAN, row \in {None} \cup {Some(id) : id \in DOMAIN topics} :
              GenerateKeywordsTopic(p, dbok, row)
        \/ \E dbok \in BOOLEAN : GenerateKeywordsContext(p, dbok)
        \/ \E ai \in SharedKeywordAnswers : GenerateKeywordsModelCall(p, ai)
        \/ \E dbok \in BOOLEAN : GenerateKeywordsCreateTopic(p, dbok)
        \/ \E dbok \in BOOLEAN : GenerateKeywordsRelExists(p, dbok)
        \/ \E dbok \in BOOLEAN : GenerateKeywordsCreateRel(p, dbok)
        \/ /\ ncalls < MaxSharedCalls
           /\ \E canvas_id \in {"", "C0", "C1"}, dbok \in BOOLEAN :
                 GetGraphDataStart(p, canvas_id, dbok)
        \/ \E dbok \in BOOLEAN : GetGraphDataRelationships(p, dbok)

SpecShared == InitShared /\ [][NextShared]_vars

(***************************************************************************)
(* Properties of the enrich call.                                          *)
(***************************************************************************)
\* the searchHistory array stored on Topic id; the empty sequence when the
\* knowledge is not a JSON object holding such an array
StoredHistory(id) ==
    LET kn == topics[id].knowledge
    IN  IF kn.some /\ kn.v.k = "json" /\ kn.v.v.t = "object"
           /\ "searchHistory" \in DOMAIN kn.v.v.f
           /\ kn.v.v.f["searchHistory"].t = "array"
        THEN kn.v.v.f["searchHistory"].items
        ELSE <<>>

Timestamps(items) == [i \in 1..Len(items) |-> items[i].timestamp]

\* the history entry that belongs to the response r
EntryOf(r) ==
    [timestamp |-> r.generated_at,
     web_search_results |-> r.web_search_results,
     news_search_results |-> r.news_search_results,
     insights |-> r.insights]

Returned(p, status) == call[p].pc = "done" /\ call[p].result.status = status

\* the number n of enrich calls that have succeeded (their timestamps are
\* positive) and the number k of entries the Topic started with
NSucceeded == Cardinality({i \in 1..Len(log) : log[i] > 0})
KInitial == Len(log) - NSucceeded

\* C1: History cap.  log holds the timestamps of the k entries the Topic
\* started with, followed by the timestamp of every enrich call that has
\* succeeded since (n of them).  After n >= 1 successful calls (and before
\* any call when k <= 5) the stored searchHistory has exactly min(k + n, 5)
\* entries, never more than 5, and they are the most recent ones of log,
\* oldest first.
C1_HistoryCap ==
    (NSucceeded >= 1 \/ KInitial <= 5)
    => /\ Len(StoredHistory(1)) = Min(KInitial + NSucceeded, 5)
       /\ Len(StoredHistory(1)) <= 5
       /\ Timestamps(StoredHistory(1)) = LastN(log, 5)

\* six successful calls on a Topic that started with no history: the call
\* of time 1 has been evicted, the calls of times 2..6 remain
C1_Witness ==
    /\ Returned("p1", "Ok")
    /\ log = <<1, 2, 3, 4, 5, 6>>
    /\ Timestamps(StoredHistory(1)) = <<2, 3, 4, 5, 6>>

\* C2: a call that read absent, empty or non-JSON knowledge and succeeded
\* has stored a searchHistory of exactly one entry, the entry of this call;
\* the knowledge it read never makes such a call panic, and the only errors
\* it returns are those of a repository call or of the model call.
C2_BlankKnowledge ==
    \A p \in Procs :
        (/\ call[p].op = "enrich" /\ call[p].pc = "done"
         /\ call[p].topic_node.some
         /\ call[p].topic_node.v.knowledge \in BlankKnowledge)
        => /\ call[p].result.status = "panic" =>
                 call[p].result.at # "updated_knowledge[searchHistory]"
           /\ call[p].result.status = "Err" =>
                 call[p].result.at \in
                    {"get_topic_path", "generate_content", "update_topic_node"}
           /\ call[p].result.status = "Ok" =>
                 StoredHistory(call[p].topic_node_id) = <<EntryOf(call[p].result)>>

C2_Witness ==
    /\ Returned("p1", "Ok")
    /\ call["p1"].topic_node.v.knowledge = Some(KRaw)
    /\ Len(StoredHistory(1)) = 1

\* C3: Soft-failure tolerance.  A call whose document search failed does
\* not end before the model call, returns no error but that of the model
\* call or of the persistence, and when it succeeds its document_context is
\* absent.
C3_SoftFailure ==
    \A p \in Procs :
        (call[p].op = "enrich" /\ "doc" \in call[p].failed)
        => /\ call[p].pc = "done" => "model" \in call[p].invoked
           /\ call[p].result.status = "Err" =>
                 call[p].result.at \in {"generate_content", "update_topic_node"}
           /\ call[p].result.status = "Ok" =>
                 call[p].result.document_context = None

C3_Witness ==
    /\ Returned("p1", "Ok")
    /\ "doc" \in call["p1"].failed
    /\ call["p1"].result.document_context = None

\* what the search gateway saw of search s in call c
Succeeded(c, s) == s \in c.invoked /\ s \notin c.failed

\* C4: web and news search are isolated and never fatal.  A search that
\* was not requested, or that has no search service, is never invoked; a
\* call in which a search failed still reaches the model call and returns
\* no error because of it; in a successful result web_search_results is
\* present exactly when the web search was requested, a service is
\* configured and it succeeded, and the same for news_search_results,
\* whatever the other search did.
C4_SearchIsolation ==
    \A p \in Procs :
        (call[p].op = "enrich")
        => LET c == call[p] IN
           /\ "web" \in c.invoked => c.include_web /\ cfg.internet_search_service
           /\ "news" \in c.invoked => c.include_news /\ cfg.internet_search_service
           /\ (c.pc = "done" /\ c.failed \cap {"web", "news"} # {})
                 => "model" \in c.invoked
           /\ (c.result.status = "Err" /\ c.failed \cap {"web", "news"} # {})
                 => c.result.at \in {"generate_content", "update_topic_node"}
           /\ c.pc \in {"persist", "done"} /\ c.result.status = "Ok" =>
                 /\ c.result.web_search_results.some
                       <=> (c.include_web /\ cfg.internet_search_service
                            /\ Succeeded(c, "web"))
                 /\ c.result.news_search_results.some
                       <=> (c.include_news /\ cfg.internet_search_service
                            /\ Succeeded(c, "news"))
                 /\ (c.include_web /\ cfg.internet_search_service) => "web" \in c.invoked
                 /\ (c.include_news /\ cfg.internet_search_service) => "news" \in c.invoked

\* the news search failed and the web results are returned all the same
C4_Witness ==
    /\ Returned("p1", "Ok")
    /\ "news" \in call["p1"].failed
    /\ "web" \notin call["p1"].failed
    /\ call["p1"].result.web_search_results = Some("web")
    /\ call["p1"].result.news_search_results = None

(***************************************************************************)
(* Properties of create_node, generate_keywords and the edge check.        *)
(***************************************************************************)
\* what call number n has created
TopicsBy(n) == {id \in DOMAIN topics : topics[id].by = n}
EdgesBy(n) == {e \in edges : e.by = n}

\* the model answered with a keywords array of strings alone
KeywordStrings(ai_result) ==
    /\ ai_result.t = "object"
    /\ "keywords" \in DOMAIN ai_result.f
    /\ ai_result.f["keywords"].t = "array"
    /\ \A i \in 1..Len(ai_result.f["keywords"].items) :
          /\ ai_result.f["keywords"].items[i].t = "scalar"
          /\ ai_result.f["keywords"].items[i].kind = "string"

\* C5: a generate_keywords call that returned Ok on a keywords array of n
\* strings has created exactly n Topics, the i-th created one named after
\* the i-th keyword, of kind "generated", in the canvas of the request; each
\* of them has exactly one incoming RELATED_TO edge, which comes from the
\* source Topic; the call has created exactly these n edges and returns
\* the keywords as the model gave them together with the n edge ids in the
\* same order.
C5_ExpandCreates ==
    \A p \in Procs :
        (/\ call[p].op = "generate_keywords" /\ Returned(p, "Ok")
         /\ KeywordStrings(call[p].ai_result.v))
        => LET c == call[p]
               items == c.ai_result.v.f["keywords"].items
               n == Len(items)
           IN  /\ c.result.keywords = [i \in 1..n |-> items[i].str]
               /\ Len(c.result.edges) = n
               /\ Len(c.new_nodes) = n
               /\ Cardinality(TopicsBy(c.id)) = n
               /\ Cardinality(EdgesBy(c.id)) = n
               /\ {c.new_nodes[i] : i \in 1..n} = TopicsBy(c.id)
               /\ \A i \in 1..n, j \in 1..n : i < j => c.new_nodes[i] < c.new_nodes[j]
               /\ \A i \in 1..n :
                     /\ topics[c.new_nodes[i]].name = items[i].str
                     /\ topics[c.new_nodes[i]].kind = "generated"
                     /\ topics[c.new_nodes[i]].canvas = c.canvas_id
                     /\ \E e \in EdgesBy(c.id) :
                           /\ e.id = c.result.edges[i]
                           /\ e.source_id = c.source_topic.v
                           /\ {x \in edges : x.target_id = c.new_nodes[i]} = {e}

\* the keywords repeat the name of the source Topic: two more Topics "a"
C5_Witness ==
    /\ call["p1"].op = "generate_keywords" /\ Returned("p1", "Ok")
    /\ call["p1"].result.keywords = <<"a", "a">>
    /\ call["p1"].source_topic = Some(1)
    /\ Len(call["p1"].result.edges) = 2

NoTopicNamed(name, canvas_id) ==
    \A id \in DOMAIN topics : ~(topics[id].name = name /\ topics[id].canvas = canvas_id)

\* C6: generate_keywords on a canvas that does not exist ends with
\* CanvasNotFound (or the DatabaseError of the canvas lookup), on an
\* existing canvas without a Topic of that name with TopicNotFound (or the
\* DatabaseError of one of the two lookups); CanvasNotFound is returned
\* only for a missing canvas and TopicNotFound only for an existing one;
\* a call that returned either has not called the model and has created
\* no Topic and no edge.
C6_NotFound ==
    \A p \in Procs :
        (call[p].op = "generate_keywords" /\ call[p].pc = "done")
        => LET c == call[p]
               kind == IF c.result.status = "Err" THEN c.result.kind ELSE "none"
           IN  /\ c.canvas_id \notin canvases =>
                     \/ kind = "CanvasNotFound"
                     \/ c.result = Err("DatabaseError", "get_canvas_by_id")
               /\ (c.canvas_id \in canvases /\ NoTopicNamed(c.topic_name, c.canvas_id)) =>
                     \/ kind = "TopicNotFound"
                     \/ c.result = Err("DatabaseError", "get_canvas_by_id")
                     \/ c.result = Err("DatabaseError", "get_topic_by_name_and_canvas")
               /\ kind = "CanvasNotFound" => c.canvas_id \notin canvases
               /\ kind = "TopicNotFound" => c.canvas_id \in canvases
               /\ kind \in {"CanvasNotFound", "TopicNotFound"} =>
                     /\ "model" \notin c.invoked
                     /\ TopicsBy(c.id) = {}
                     /\ EdgesBy(c.id) = {}

\* both errors in one state: a missing canvas with an existing name, and an
\* existing canvas with a name it does not hold
C6_Witness ==
    /\ call["p1"].op = "generate_keywords" /\ Returned("p1", "Err")
    /\ call["p1"].canvas_id = "C0" /\ call["p1"].topic_name = "a"
    /\ call["p1"].result.kind = "CanvasNotFound"
    /\ call["p2"].op = "generate_keywords" /\ Returned("p2", "Err")
    /\ call["p2"].canvas_id = "C1" /\ call["p2"].topic_name = "b"
    /\ call["p2"].result.kind = "TopicNotFound"

\* C7: a create_node call that returned TopicAlreadyExists found a Topic of
\* that name in that canvas and has created no Topic and no edge; and a
\* create_node call for the name of a Topic the canvas held before the call
\* began never succeeds: it ends with TopicAlreadyExists, unless the
\* validation or a repository read failed first.
C7_DuplicateName ==
    \A p \in Procs :
        (call[p].op = "create_node" /\ call[p].pc = "done")
        => LET c == call[p]
               kind == IF c.result.status = "Err" THEN c.result.kind ELSE "none"
               held == \E id \in TopicsBy(0) :
                          topics[id].name = c.name /\ topics[id].canvas = c.canvas_id
           IN  /\ kind = "TopicAlreadyExists" =>
                     /\ ~NoTopicNamed(c.name, c.canvas_id)
                     /\ TopicsBy(c.id) = {}
                     /\ EdgesBy(c.id) = {}
               /\ held =>
                     /\ TopicsBy(c.id) = {}
                     /\ EdgesBy(c.id) = {}
                     /\ \/ kind = "TopicAlreadyExists"
                        \/ kind = "ValidationError"
                        \/ c.result = Err("DatabaseError", "get_canvas_by_id")
                        \/ c.result = Err("DatabaseError", "get_topic_node_by_name_and_canvas")

C7_Witness ==
    /\ call["p1"].op = "create_node" /\ Returned("p1", "Err")
    /\ call["p1"].name = "a" /\ call["p1"].canvas_id = "C1"
    /\ call["p1"].parent_node_id = Some(1)
    /\ call["p1"].result.kind = "TopicAlreadyExists"
    /\ DOMAIN topics = {1} /\ edges = {}

\* C8: no two Topics of one canvas have the same name.
C8_NameUnique ==
    \A id1 \in DOMAIN topics, id2 \in DOMAIN topics :
        (topics[id1].canvas = topics[id2].canvas /\ topics[id1].name = topics[id2].name)
        => id1 = id2

\* C9: a caller that checks relationship_exists before every
\* create_relationship never leaves two RELATED_TO edges on one ordered pair
\* (source, target).
C9_CheckThenCreate ==
    \A e1 \in edges, e2 \in edges :
        (e1.source_id = e2.source_id /\ e1.target_id = e2.target_id) => e1.id = e2.id

\* the caller asked for a pair a second time and found its edge
C9_Witness ==
    /\ call["p1"].op = "link" /\ Returned("p1", "Ok")
    /\ ~call["p1"].result.created
    /\ \E e \in edges :
          /\ e.source_id = call["p1"].source_id /\ e.target_id = call["p1"].target_id
          /\ e.by < call["p1"].id

\* two expand calls of one source Topic, one of which passed its
\* relationship_exists while the other stood between its check and its
\* create_relationship, and both of which have returned
RacedExpansion(p, q) ==
    /\ p # q
    /\ call[p].op = "generate_keywords" /\ Returned(p, "Ok")
    /\ call[q].op = "generate_keywords" /\ Returned(q, "Ok")
    /\ call[p].source_topic = call[q].source_topic
    /\ call[p].raced
    /\ call[p].new_edges # <<>> /\ call[q].new_edges # <<>>

DuplicateEdge ==
    \E e1 \in edges, e2 \in edges :
        e1.id # e2.id /\ e1.source_id = e2.source_id /\ e1.target_id = e2.target_id

\* C10 as stated: after two expand calls of one source Topic have both
\* passed relationship_exists before either created its edge, two
\* RELATED_TO edges lie on one ordered pair of Topics.
C10_RaceDuplicates ==
    \A p \in Procs, q \in Procs : RacedExpansion(p, q) => DuplicateEdge

\* C10, amended: in that interleaving each call links the source to the
\* Topics it has created itself, so the two calls share no target; and in
\* no reachable state does an ordered pair of Topics carry two RELATED_TO
\* edges.
C10_RaceOwnTargets ==
    /\ ~DuplicateEdge
    /\ \A p \in Procs, q \in Procs :
          RacedExpansion(p, q)
          => /\ \A e \in EdgesBy(call[p].id) : e.target_id \in TopicsBy(call[p].id)
             /\ \A e \in EdgesBy(call[q].id) : e.target_id \in TopicsBy(call[q].id)
             /\ TopicsBy(call[p].id) \cap TopicsBy(call[q].id) = {}

C10_Witness ==
    /\ RacedExpansion("p1", "p2")
    /\ call["p1"].keywords = <<"b">> /\ call["p2"].keywords = <<"b">>
    /\ Cardinality(edges) = 2

\* the repository calls inside the loop of generate_keywords
LoopCalls == {"create_topic_node", "relationship_exists", "create_relationship"}

\* C11: Partial write without rollback.  A generate_keywords call that
\* ended on a failure of create_topic_node, relationship_exists or
\* create_relationship at the i-th keyword returns DatabaseError for that
\* failure; the Topics of the keywords before i, and the Topic of keyword i
\* when it was created before the failure, are in the store under their
\* keywords, the edges of the keywords before i are in the store, and the
\* call has created nothing for a later keyword.
C11_PartialWrite ==
    \A p \in Procs :
        (/\ call[p].op = "generate_keywords" /\ Returned(p, "Err")
         /\ call[p].result.at \in LoopCalls)
        => LET c == call[p]
               m == Len(c.new_nodes)
               i == IF c.result.at = "create_topic_node" THEN m + 1 ELSE m
           IN  /\ c.result.kind = "DatabaseError"
               /\ i \in 1..Len(c.keywords)
               /\ TopicsBy(c.id) = {c.new_nodes[j] : j \in 1..m}
               /\ Cardinality(TopicsBy(c.id)) = m
               /\ \A j \in 1..m :
                     /\ topics[c.new_nodes[j]].name = c.keywords[j]
                     /\ topics[c.new_nodes[j]].canvas = c.canvas_id
               /\ Len(c.new_edges) = i - 1
               /\ Cardinality(EdgesBy(c.id)) = i - 1
               /\ \A j \in 1..(i - 1) :
                     \E e \in EdgesBy(c.id) :
                        /\ e.id = c.new_edges[j]
                        /\ e.source_id = c.source_topic.v
                        /\ e.target_id = c.new_nodes[j]

\* the edge of the second keyword failed: two Topics and one edge remain
C11_Witness ==
    /\ call["p1"].op = "generate_keywords" /\ Returned("p1", "Err")
    /\ call["p1"].result = Err("DatabaseError", "create_relationship")
    /\ call["p1"].keywords = <<"b", "b">>
    /\ Cardinality(TopicsBy(call["p1"].id)) = 2
    /\ Cardinality(EdgesBy(call["p1"].id)) = 1

(***************************************************************************)
(* Properties of the tree queries and of the deletions.                    *)
(***************************************************************************)
\* the Topics that n or fewer RELATED_TO edges lead to from the Topics of S
RECURSIVE Within(_, _)
Within(S, n) ==
    IF n = 0 THEN S
    ELSE LET W == Within(S, n - 1)
         IN  W \cup {e.target_id : e \in {x \in edges : x.source_id \in W}}

Reachable(topic_id, canvas_id) ==
    topic_id \in Within(Roots(canvas_id), Cardinality(DOMAIN topics))

\* the number of edges of the shortest chain from a root of the canvas
Depth(topic_id, canvas_id) ==
    CHOOSE n \in 0..Cardinality(DOMAIN topics) :
        /\ topic_id \in Within(Roots(canvas_id), n)
        /\ \A k \in 0..(n - 1) : topic_id \notin Within(Roots(canvas_id), k)

\* C12: Path invariant.  get_topic_node_path of a Topic and its canvas,
\* when the shortest chain of RELATED_TO edges from a parentless Topic of
\* that canvas to the Topic has N edges, answers N + 1 names: the names
\* along a chain of N edges, from a parentless Topic of the canvas down to
\* the Topic itself; for a parentless Topic, its own name alone.
C12_PathInvariant ==
    \A p \in Procs :
        (/\ call[p].op = "get_topic_node_path" /\ Returned(p, "Ok")
         /\ call[p].topic_id \in DOMAIN topics
         /\ call[p].canvas_id = topics[call[p].topic_id].canvas
         /\ Reachable(call[p].topic_id, call[p].canvas_id))
        => LET t == call[p].topic_id
               names == call[p].result.names
               n == Depth(t, call[p].canvas_id)
           IN  /\ Len(names) = n + 1
               /\ names[n + 1] = topics[t].name
               /\ t \in Roots(call[p].canvas_id) => names = <<topics[t].name>>
               /\ \E chain \in [1..(n + 1) -> DOMAIN topics] :
                     /\ chain[1] \in Roots(call[p].canvas_id)
                     /\ chain[n + 1] = t
                     /\ \A i \in 1..n : relationship_exists(chain[i], chain[i + 1])
                     /\ \A i \in 1..(n + 1) : names[i] = topics[chain[i]].name

\* c is reached from a over b and, after a second edge, from a directly:
\* the path is the shorter one
C12_Witness ==
    /\ call["p1"].op = "get_topic_node_path" /\ Returned("p1", "Ok")
    /\ call["p1"].topic_id = 3 /\ call["p1"].canvas_id = "C1"
    /\ relationship_exists(1, 2) /\ relationship_exists(2, 3)
    /\ relationship_exists(1, 3)
    /\ call["p1"].result.names = <<"a", "c">>

\* C13: get_topic_node_path fails only on a failure of the database; for
\* a Topic that no parentless Topic of the given canvas leads to (a Topic
\* on a cycle without an entry, an id of no Topic, a Topic whose roots are
\* of another canvas) it answers the empty list, and it answers the empty
\* list in no other case.
C13_EmptyPath ==
    \A p \in Procs :
        (call[p].op = "get_topic_node_path" /\ call[p].pc = "done")
        => /\ call[p].result.status = "Err" =>
                 call[p].result = Err("DatabaseError", "get_topic_node_path")
           /\ call[p].result.status = "Ok" =>
                 (call[p].result.names = <<>>
                     <=> ~Reachable(call[p].topic_id, call[p].canvas_id))

\* a and b lie on a cycle that no root leads to
C13_Witness ==
    /\ call["p1"].op = "get_topic_node_path" /\ Returned("p1", "Ok")
    /\ call["p1"].topic_id = 2 /\ call["p1"].canvas_id = "C1"
    /\ relationship_exists(1, 2) /\ relationship_exists(2, 1)
    /\ 3 \in Roots("C1")
    /\ call["p1"].result.names = <<>>

ShareParent(a, b) ==
    \E e1 \in edges, e2 \in edges :
        e1.source_id = e2.source_id /\ e1.target_id = a /\ e2.target_id = b

SiblingIds(topic_id, canvas_id) ==
    {r.sibling : r \in get_existing_siblings(topic_id, canvas_id)}

\* C14: Sibling symmetry.  For two distinct Topics A and B of one canvas
\* with a common parent, B (and B's name) is among the siblings of A
\* exactly when A (and A's name) is among the siblings of B; the answer
\* for a Topic without a parent is empty; the Topic itself is no row of
\* its own answer.
C14_SiblingSymmetry ==
    /\ \A a \in DOMAIN topics, b \in DOMAIN topics :
          (a # b /\ topics[a].canvas = topics[b].canvas /\ ShareParent(a, b))
          => LET c == topics[a].canvas
             IN  /\ b \in SiblingIds(a, c) <=> a \in SiblingIds(b, c)
                 /\ topics[b].name \in SiblingNames(get_existing_siblings(a, c))
                       <=> topics[a].name \in SiblingNames(get_existing_siblings(b, c))
    /\ \A p \in Procs :
          (call[p].op = "get_existing_siblings" /\ Returned(p, "Ok"))
          => LET c == call[p]
             IN  /\ c.result.rows = get_existing_siblings(c.topic_id, c.canvas_id)
                 /\ c.result.names = SiblingNames(c.result.rows)
                 /\ ~(\E e \in edges : e.target_id = c.topic_id) => c.result.names = {}
                 /\ \A r \in c.result.rows : r.sibling # c.topic_id

\* b and c are the children of a: the siblings of b are c
C14_Witness ==
    /\ call["p1"].op = "get_existing_siblings" /\ Returned("p1", "Ok")
    /\ call["p1"].topic_id = 2 /\ call["p1"].canvas_id = "C1"
    /\ call["p1"].result.names = {"c"}
    /\ SiblingIds(3, "C1") = {2}

\* the edges that start or end at the Topic
Incident(id) == {e \in edges : e.source_id = id \/ e.target_id = id}

\* a step of delete_node by p
DeleteStep(p) == call'[p] # call[p] /\ call'[p].op = "delete_node"

\* C15: delete_node of an id that is no Topic leaves the graph as it is
\* and returns NotFound (or the error of the validation or of the
\* database); of an id that is a Topic it returns Ok after the Topic and
\* every edge from or to it have gone, and nothing else has (or it fails
\* on the database and leaves the graph as it is); the Topic of a delete
\* that returned Ok is not in the store, so that a second delete of the id
\* returns NotFound.
C15_DeleteNode ==
    /\ [](\A p \in Procs :
            (call[p].op = "delete_node" /\ Returned(p, "Ok"))
            => call[p].node_id \notin DOMAIN topics /\ Incident(call[p].node_id) = {})
    /\ [][\A p \in Procs :
            DeleteStep(p)
            => LET c == call'[p]
               IN  IF c.node_id \notin DOMAIN topics
                   THEN /\ c.result.status = "Err"
                        /\ c.result.kind \in {"NotFound", "DatabaseError", "ValidationError"}
                        /\ c.result.kind = "ValidationError" => c.node_id = BlankId
                        /\ topics' = topics /\ edges' = edges
                   ELSE \/ /\ c.result = [status |-> "Ok"]
                           /\ DOMAIN topics' = DOMAIN topics \ {c.node_id}
                           /\ \A t \in DOMAIN topics' : topics'[t] = topics[t]
                           /\ edges' = edges \ Incident(c.node_id)
                        \/ /\ c.result = Err("DatabaseError", "delete_topic_node")
                           /\ topics' = topics /\ edges' = edges]_vars

\* b was deleted with the edge from a, and is deleted a second time
C15_Witness ==
    /\ call["p1"].op = "delete_node" /\ Returned("p1", "Err")
    /\ call["p1"].result.kind = "NotFound"
    /\ call["p1"].node_id = 2
    /\ DOMAIN topics = {1, 3, 4} /\ edges = {}

\* C16: Canvas deletion cascades.  After delete_canvas of C has returned
\* Ok the store holds no Topic of canvas C and no RELATED_TO edge of
\* canvas C.
C16_CanvasCascade ==
    \A p \in Procs :
        (call[p].op = "delete_canvas" /\ Returned(p, "Ok"))
        => /\ \A t \in DOMAIN topics : topics[t].canvas # call[p].canvas_id
           /\ \A e \in edges : e.canvas_id # call[p].canvas_id

(***************************************************************************)
(* Properties of the persistence step, of the keyword parse and of the     *)
(* outcomes of the calls.                                                  *)
(***************************************************************************)
\* C17: an enrich call whose update_topic_node failed returns
\* DatabaseError, and the knowledge stored on the Topic is the knowledge
\* the call read when it began.
C17_PersistFailure ==
    \A p \in Procs :
        (/\ call[p].op = "enrich" /\ Returned(p, "Err")
         /\ call[p].result.at = "update_topic_node")
        => /\ call[p].result.kind = "DatabaseError"
           /\ topics[call[p].topic_node_id].knowledge = call[p].topic_node.v.knowledge

\* the second call failed to persist: the history holds the first call alone
C17_Witness ==
    /\ call["p1"].op = "enrich" /\ Returned("p1", "Err")
    /\ call["p1"].result = Err("DatabaseError", "update_topic_node")
    /\ call["p1"].entry.some
    /\ Len(StoredHistory(1)) = 1 /\ Len(log) = 1
    /\ StoredHistory(1)[1].timestamp < call["p1"].entry.v.timestamp

\* C18: an enrich call whose model call succeeded and whose response was
\* built returns that response, whether update_topic_node succeeded or
\* failed.
C18_ResultDelivered ==
    \A p \in Procs :
        (call[p].op = "enrich" /\ call[p].pc = "done" /\ call[p].entry.some)
        => /\ call[p].result.status = "Ok"
           /\ call[p].result.insights = call[p].entry.v.insights

\* the string items of a keywords array, in order
RECURSIVE Strings(_)
Strings(items) ==
    IF items = <<>> THEN <<>>
    ELSE (IF Head(items).t = "scalar" /\ Head(items).kind = "string"
          THEN <<Head(items).str>> ELSE <<>>) \o Strings(Tail(items))

HasKeywordsArray(v) ==
    v.t = "object" /\ "keywords" \in DOMAIN v.f /\ v.f["keywords"].t = "array"

\* C19: a generate_keywords call whose model answer is JSON without a
\* keywords field, or with a keywords field that is no array, returns Ok
\* with no keyword and no edge and has created nothing; from a keywords
\* array it takes the strings, in order, and drops the other items; an
\* answer that is not JSON ends the call with InvalidResponseFormat and
\* nothing created, and no other call returns InvalidResponseFormat.
C19_KeywordsParse ==
    \A p \in Procs :
        (call[p].op = "generate_keywords")
        => LET c == call[p]
               json == c.ai_text.some /\ c.ai_text.v.k = "json"
               invalid == c.result.status = "Err"
                          /\ c.result.kind = "InvalidResponseFormat"
           IN  /\ invalid <=> (c.ai_text.some /\ c.ai_text.v.k # "json")
               /\ invalid => TopicsBy(c.id) = {} /\ EdgesBy(c.id) = {}
               /\ (json /\ ~HasKeywordsArray(c.ai_text.v.v)) =>
                     /\ c.pc = "done"
                     /\ c.result = [status |-> "Ok", keywords |-> <<>>, edges |-> <<>>]
                     /\ TopicsBy(c.id) = {} /\ EdgesBy(c.id) = {}
               /\ (json /\ HasKeywordsArray(c.ai_text.v.v)) =>
                     /\ c.keywords = Strings(c.ai_text.v.v.f["keywords"].items)
                     /\ Returned(p, "Ok") => c.result.keywords = c.keywords

\* one answer whose keywords field is a string, one whose array holds a
\* number before the string b, and nothing but the Topic b created
C19_Witness ==
    /\ call["p1"].op = "generate_keywords" /\ Returned("p1", "Ok")
    /\ call["p1"].ai_text = Some(KJson(JObj("keywords" :> JStr("a"))))
    /\ call["p1"].result.keywords = <<>>
    /\ call["p2"].op = "generate_keywords" /\ Returned("p2", "Ok")
    /\ call["p2"].ai_text =
          Some(KJson(JObj("keywords" :> JArr(<<JScalar("number"), JStr("b")>>))))
    /\ call["p2"].result.keywords = <<"b">>
    /\ Cardinality(DOMAIN topics) = 2 /\ Cardinality(edges) = 1

\* C20: no generate_keywords or enrich call aborts: a call that has ended
\* has returned Ok or one of the kinds of AIServiceError.
C20_NeverAborts ==
    \A p \in Procs :
        (call[p].op \in {"enrich", "generate_keywords"} /\ call[p].pc = "done")
        => /\ call[p].result.status \in {"Ok", "Err"}
           /\ call[p].result.status = "Err" =>
                 call[p].result.kind \in
                    {"GenerationFailed", "CanvasNotFound", "TopicNotFound",
                     "DatabaseError", "AIServiceError", "InvalidResponseFormat",
                     "SearchServiceError", "WeaviateError"}

(***************************************************************************)
(* Properties of the persisted layout, of the frame of the calls and of    *)
(* concurrent calls.                                                       *)
(***************************************************************************)
\* C21: Persisted layout.  After an enrich call has returned Ok the
\* knowledge of its Topic is a JSON object whose googleSearchStatus is
\* "completed", whose latestGoogleSearch is the bundle of the call and
\* whose searchHistory is an array of 1 to 5 entries that ends with the
\* entry of the call.
C21_PersistedLayout ==
    \A p \in Procs :
        (call[p].op = "enrich" /\ Returned(p, "Ok"))
        => LET kn == topics[call[p].topic_node_id].knowledge
           IN  /\ kn.some /\ kn.v.k = "json" /\ kn.v.v.t = "object"
               /\ {"googleSearchStatus", "latestGoogleSearch", "searchHistory"}
                     \subseteq DOMAIN kn.v.v.f
               /\ kn.v.v.f["googleSearchStatus"] = JScalar("completed")
               /\ kn.v.v.f["latestGoogleSearch"].insights = call[p].result.insights
               /\ kn.v.v.f["latestGoogleSearch"].generated_at = call[p].result.generated_at
               /\ kn.v.v.f["searchHistory"].t = "array"
               /\ Len(kn.v.v.f["searchHistory"].items) \in 1..HistoryCap
               /\ kn.v.v.f["searchHistory"].items[Len(kn.v.v.f["searchHistory"].items)]
                     = EntryOf(call[p].result)

\* the failures that end a call before it has written
HardFailure(c) ==
    /\ c.pc = "done" /\ c.result.status = "Err"
    /\ c.result.kind \in
          (IF c.op = "generate_keywords"
           THEN {"CanvasNotFound", "TopicNotFound", "AIServiceError", "InvalidResponseFormat"}
           ELSE IF c.op = "enrich" THEN {"TopicNotFound", "AIServiceError"}
           ELSE {})

\* the model call of c has succeeded and its answer was accepted
ModelSucceeded(c) ==
    /\ "model" \in c.invoked
    /\ IF c.op = "generate_keywords" THEN c.ai_result.some ELSE c.entry.some

\* C22: a generate_keywords call that returned CanvasNotFound,
\* TopicNotFound, AIServiceError or InvalidResponseFormat, and an enrich
\* call that returned TopicNotFound or AIServiceError, has written nothing:
\* the step that returns the failure leaves canvases, Topics and edges as
\* they were, and a step of either call writes to the store only after the
\* model call of that call has succeeded.
C22_HardFailures ==
    /\ [](\A p \in Procs :
            HardFailure(call[p])
            => /\ ~ModelSucceeded(call[p])
               /\ call[p].op = "generate_keywords"
                    => TopicsBy(call[p].id) = {} /\ EdgesBy(call[p].id) = {})
    /\ [][\A p \in Procs :
            (call'[p] # call[p] /\ call'[p].op \in {"generate_keywords", "enrich"})
            => /\ HardFailure(call'[p]) => UNCHANGED <<canvases, topics, edges>>
               /\ ~UNCHANGED <<canvases, topics, edges>>
                    => call[p].op = call'[p].op /\ ModelSucceeded(call[p])]_vars

\* an expansion ended by an answer that is not JSON and an enrich call ended
\* by a failed model call, and the store holds what it held at the start
C22_Witness ==
    /\ call["p1"].op = "generate_keywords" /\ HardFailure(call["p1"])
    /\ call["p1"].result.kind = "InvalidResponseFormat"
    /\ call["p2"].op = "enrich" /\ HardFailure(call["p2"])
    /\ call["p2"].result.kind = "AIServiceError"
    /\ "model" \in call["p2"].invoked
    /\ DOMAIN topics = {1, 2} /\ topics[2] = TopicB
    /\ topics[1].knowledge = Some(KJson(JObj("other" :> JScalar("string"))))
    /\ Cardinality(edges) = 1

\* the keys an enrich call assigns
OwnKeys == {"googleSearchStatus", "latestGoogleSearch", "searchHistory"}

\* the top-level keys of a knowledge text that is a JSON object
ObjectFields(kn) ==
    IF kn.some /\ kn.v.k = "json" /\ kn.v.v.t = "object" THEN kn.v.v.f ELSE EmptyFields

\* the keys of before other than the three of the call are in after, unchanged
KeepsOtherKeys(before, after) ==
    \A key \in DOMAIN ObjectFields(before) \ OwnKeys :
        /\ key \in DOMAIN ObjectFields(after)
        /\ ObjectFields(after)[key] = ObjectFields(before)[key]

StoredInsights(id) ==
    IF id \in DOMAIN topics
       /\ "latestGoogleSearch" \in DOMAIN ObjectFields(topics[id].knowledge)
    THEN Some(ObjectFields(topics[id].knowledge)["latestGoogleSearch"].insights)
    ELSE None

\* C25: when an enrich call returns Ok, the Topic is in the store and its
\* stored latestGoogleSearch.insights is the insights returned.
C25_ReturnedIsStored ==
    [][\A p \in Procs :
         (/\ call[p].op = "enrich" /\ call[p].pc = "persist"
          /\ call'[p].pc = "done" /\ call'[p].result.status = "Ok")
         => /\ call[p].topic_node_id \in DOMAIN topics'
            /\ StoredInsights(call[p].topic_node_id)' = Some(call'[p].result.insights)]_vars

\* C26: when two enrich calls on one Topic have both returned Ok, the
\* stored searchHistory of the Topic holds the entry of each.
C26_NoLostHistory ==
    (/\ call["p1"].op = "enrich" /\ Returned("p1", "Ok")
     /\ call["p2"].op = "enrich" /\ Returned("p2", "Ok")
     /\ call["p1"].topic_node_id = call["p2"].topic_node_id
     /\ call["p1"].topic_node_id \in DOMAIN topics)
    => \A p \in Procs :
          \E i \in 1..Len(StoredHistory(call[p].topic_node_id)) :
              StoredHistory(call[p].topic_node_id)[i] = EntryOf(call[p].result)

(***************************************************************************)
(* Properties of the expansion: the count of keywords, the Topics it       *)
(* leaves, and the tree queries after it.                                  *)
(***************************************************************************)
\* C24: a generate_keywords call in automatic mode that returned Ok
\* returned between 3 and 15 keywords.
C24_AutomaticCount ==
    \A p \in Procs :
        (/\ call[p].op = "generate_keywords" /\ Returned(p, "Ok")
         /\ call[p].is_automatic)
        => Len(call[p].result.keywords) \in 3..15

\* C27: once a generate_keywords call has returned, with Ok or with an
\* error, every Topic it created has an incoming edge from the source Topic
\* of the call.
C27_NoOrphan ==
    \A p \in Procs :
        (call[p].op = "generate_keywords" /\ call[p].pc = "done")
        => \A t \in TopicsBy(call[p].id) :
              \E e \in edges :
                 /\ call[p].source_topic.some
                 /\ e.source_id = call[p].source_topic.v
                 /\ e.target_id = t

\* the Topics the call c created that have no edge from the source of c
Orphans(c) ==
    {t \in TopicsBy(c.id) :
        ~\E e \in edges : /\ c.source_topic.some
                          /\ e.source_id = c.source_topic.v
                          /\ e.target_id = t}

\* C27, as the code has it: a generate_keywords call that returned Ok has
\* left every Topic it created with an incoming edge from its source Topic;
\* a call that returned an error has left at most one Topic without that
\* edge, and it has left one exactly when relationship_exists or
\* create_relationship failed: the Topic of the failing keyword, the last
\* one the call created.
C27_OrphanOnlyAtFailure ==
    \A p \in Procs :
        (call[p].op = "generate_keywords" /\ call[p].pc = "done")
        => LET c == call[p]
           IN  IF /\ c.result.status = "Err"
                  /\ c.result.at \in {"relationship_exists", "create_relationship"}
               THEN /\ c.new_nodes # <<>>
                    /\ Orphans(c) = {c.new_nodes[Len(c.new_nodes)]}
               ELSE Orphans(c) = {}

\* the check of the second keyword failed: the first Topic has its edge,
\* the second has none
C27_Witness ==
    /\ call["p1"].op = "generate_keywords" /\ Returned("p1", "Err")
    /\ call["p1"].result.at = "relationship_exists"
    /\ Len(call["p1"].new_nodes) = 2
    /\ Cardinality(TopicsBy(call["p1"].id)) = 2
    /\ Orphans(call["p1"]) = {call["p1"].new_nodes[2]}
    /\ \E e \in edges : e.target_id = call["p1"].new_nodes[1]
    /\ ~\E e \in edges : e.target_id = call["p1"].new_nodes[2]

\* C28: after a generate_keywords call on the source Topic S has returned
\* Ok, the other client having made no call and the path of S being not
\* empty: the path of every Topic T the call created is the path of S
\* followed by the name of T, the children of S hold every keyword
\* returned, and every other Topic the call created is listed among the
\* siblings of T.
C28_TreeAfterExpand ==
    \A p \in Procs :
        (/\ call[p].op = "generate_keywords" /\ Returned(p, "Ok")
         /\ \A q \in Procs \ {p} : call[q].pc = "idle"
         /\ get_topic_node_path(call[p].source_topic.v, call[p].canvas_id) # {<<>>})
        => LET c == call[p]
               S == c.source_topic.v
           IN  /\ \A T \in TopicsBy(c.id) :
                     /\ get_topic_node_path(T, c.canvas_id) =
                           {row \o <<topics[T].name>> :
                               row \in get_topic_node_path(S, c.canvas_id)}
                     /\ \A U \in TopicsBy(c.id) \ {T} :
                           topics[U].name \in
                              SiblingNames(get_existing_siblings(T, c.canvas_id))
               /\ \A i \in 1..Len(c.result.keywords) :
                     c.result.keywords[i] \in get_topic_node_children(S, c.canvas_id)
               /\ Cardinality(TopicsBy(c.id)) = Len(c.result.keywords)

\* the client has created b under a and then expanded b into two Topics:
\* the path of b has two names, every new Topic a path of three
C28_Witness ==
    /\ call["p1"].op = "generate_keywords" /\ Returned("p1", "Ok")
    /\ call["p2"].pc = "idle"
    /\ call["p1"].topic_name = "b"
    /\ get_topic_node_path(call["p1"].source_topic.v, "C1") = {<<"a", "b">>}
    /\ call["p1"].result.keywords = <<"a", "b">>
    /\ Cardinality(TopicsBy(call["p1"].id)) = 2
    /\ \A T \in TopicsBy(call["p1"].id) :
          get_topic_node_path(T, "C1") = {<<"a", "b", topics[T].name>>}
    /\ get_topic_node_children(call["p1"].source_topic.v, "C1") = {"a", "b"}

\* the Topics of a canvas and the edges between them, as the writers left them
TopicsIn(canvas_id) == {t \in DOMAIN topics : topics[t].canvas = canvas_id}
EdgesIn(canvas_id) ==
    {e \in edges : e.source_id \in TopicsIn(canvas_id) /\ e.target_id \in TopicsIn(canvas_id)}

\* C29: get_graph_data(C) reads as nodes the Topics of canvas C that are in
\* the store, and as edges the relationships between them, and returns
\* both.
C29_GraphDataAgrees ==
    [][\A p \in Procs :
         (call'[p] # call[p] /\ call'[p].op = "get_graph_data")
         => /\ call'[p].pc = "relationships"
                 => call'[p].nodes = TopicsIn(call'[p].canvas_id)
            /\ (call'[p].pc = "done" /\ call'[p].result.status = "Ok")
                 => /\ call'[p].result.nodes = call[p].nodes
                    /\ call'[p].result.edges = EdgesIn(call'[p].canvas_id)]_vars

\* C30: a create_node call that returned an error has left no Topic and no
\* edge of its own in the store; a call that returned Ok for a request with
\* a parent_node_id has left its Topic with the kind generated and with
\* exactly one edge into it, from that parent.
C30_AllOrNothing ==
    \A p \in Procs :
        (call[p].op = "create_node" /\ call[p].pc = "done")
        => LET c == call[p]
           IN  /\ c.result.status = "Err"
                    => TopicsBy(c.id) = {} /\ EdgesBy(c.id) = {}
               /\ (c.result.status = "Ok" /\ c.parent_node_id.some)
                    => /\ c.result.node \in DOMAIN topics
                       /\ topics[c.result.node].kind = "generated"
                       /\ \E e \in edges :
                             /\ e.source_id = c.parent_node_id.v
                             /\ {x \in edges : x.target_id = c.result.node} = {e}

====
